---- MODULE Spec2Model ----
(***************************************************************************)
(* Model of the raybow-2 ray tracer: interval tests, sphere and            *)
(* parallelogram intersection, the scene aggregate, material scattering,   *)
(* the camera and the recursive integrator with its pixel loop.            *)
(*                                                                         *)
(* f32 values are modelled as fixed-point integers in units of 1/Scale     *)
(* (1.0 is Scale, the integrator's lower bound 0.001 is 1).  Products and  *)
(* quotients round toward zero.  f32::INFINITY is the integer Infinity,    *)
(* larger than every finite value of the model, and NaN a value below all  *)
(* of them; the arithmetic operators treat both as IEEE 754 does.          *)
(***************************************************************************)
EXTENDS Integers, Sequences, FiniteSets, TLC

VARIABLES hq, hres, cam, camPanic, camOp,
          args, scene, pc, px, py, sample, pixel_color, color_data,
          stack, retval, stats, pixlog, lastEvent,
          mq, mres, render_result, postprocessing_result, ppm_data

vars == <<hq, hres, cam, camPanic, camOp,
          args, scene, pc, px, py, sample, pixel_color, color_data,
          stack, retval, stats, pixlog, lastEvent,
          mq, mres, render_result, postprocessing_result, ppm_data>>

hitVars == <<hq, hres>>
scatterVars == <<mq, mres>>
exportVars == <<render_result, postprocessing_result, ppm_data>>
camVars == <<cam, camPanic, camOp>>
renderVars == <<args, scene, pc, px, py, sample, pixel_color, color_data,
                stack, retval, stats, pixlog, lastEvent>>

(***************************************************************************)
(* Fixed-point f32 arithmetic                                              *)
(***************************************************************************)
Scale == 1000
Infinity == 1000000000

\* f32 NaN: a value outside the numeric range, absorbing in arithmetic;
\* every ordered comparison with it is false (FLt, FLe)
NaN == -2000000000

IsInf(a) == a = Infinity \/ a = -Infinity
Sign(a) == IF a < 0 THEN -1 ELSE 1
Abs(a) == IF a = NaN THEN NaN ELSE IF a < 0 THEN -a ELSE a

FLt(a, b) == a # NaN /\ b # NaN /\ a < b
FLe(a, b) == a # NaN /\ b # NaN /\ a <= b

FNeg(a) == IF a = NaN THEN NaN ELSE -a

\* f32 `+` and `-`: inf - inf is NaN
FAdd(a, b) ==
    IF a = NaN \/ b = NaN THEN NaN
    ELSE IF IsInf(a) /\ IsInf(b) THEN (IF a = b THEN a ELSE NaN)
    ELSE IF IsInf(a) THEN a
    ELSE IF IsInf(b) THEN b
    ELSE a + b
FSub(a, b) == FAdd(a, FNeg(b))

\* f32 `*`: inf * 0 is NaN
FMul(a, b) ==
    IF a = NaN \/ b = NaN THEN NaN
    ELSE IF IsInf(a) \/ IsInf(b)
         THEN (IF a = 0 \/ b = 0 THEN NaN ELSE Sign(a) * Sign(b) * Infinity)
    ELSE LET p == a * b IN IF p >= 0 THEN p \div Scale ELSE -((-p) \div Scale)

\* f32 `/`: 0/0 and inf/inf are NaN, x/0 is +-inf, x/+-inf is 0
FDiv(a, b) ==
    IF a = NaN \/ b = NaN THEN NaN
    ELSE IF IsInf(a) THEN (IF IsInf(b) THEN NaN ELSE Sign(a) * Sign(b) * Infinity)
    ELSE IF IsInf(b) THEN 0
    ELSE IF b = 0 THEN (IF a = 0 THEN NaN ELSE Sign(a) * Infinity)
    ELSE LET p == a * Scale
         IN IF (p >= 0) = (b > 0) THEN Abs(p) \div Abs(b) ELSE -(Abs(p) \div Abs(b))

RECURSIVE ISqrtIn(_, _, _)
ISqrtIn(n, lo, hi) ==
    IF lo >= hi THEN lo
    ELSE LET mid == (lo + hi + 1) \div 2
         IN IF mid * mid <= n THEN ISqrtIn(n, mid, hi) ELSE ISqrtIn(n, lo, mid - 1)

\* f32::sqrt: NaN for a negative argument
FSqrt(a) ==
    IF a = NaN \/ a < 0 THEN NaN
    ELSE IF a = Infinity THEN Infinity
    ELSE ISqrtIn(a * Scale, 0, 46340)

\* f32::min: the other operand when one is NaN
FMin(a, b) == IF a = NaN THEN b ELSE IF b = NaN THEN a ELSE IF a < b THEN a ELSE b

\* usize as f32
AsF32(n) == n * Scale

(***************************************************************************)
(* Vector3 / Vec3A                                                         *)
(***************************************************************************)
Vec(x, y, z) == <<x, y, z>>
VAdd(u, v) == <<FAdd(u[1], v[1]), FAdd(u[2], v[2]), FAdd(u[3], v[3])>>
VSub(u, v) == <<FSub(u[1], v[1]), FSub(u[2], v[2]), FSub(u[3], v[3])>>
VNeg(u) == <<FNeg(u[1]), FNeg(u[2]), FNeg(u[3])>>
VScale(k, u) == <<FMul(k, u[1]), FMul(k, u[2]), FMul(k, u[3])>>
VDivS(u, k) == <<FDiv(u[1], k), FDiv(u[2], k), FDiv(u[3], k)>>
dot(u, v) == FAdd(FAdd(FMul(u[1], v[1]), FMul(u[2], v[2])), FMul(u[3], v[3]))
cross(u, v) == <<FSub(FMul(u[2], v[3]), FMul(u[3], v[2])),
                 FSub(FMul(u[3], v[1]), FMul(u[1], v[3])),
                 FSub(FMul(u[1], v[2]), FMul(u[2], v[1]))>>
length(u) == FSqrt(dot(u, u))
normalize(u) == VDivS(u, length(u))

(***************************************************************************)
(* Ray                                                                     *)
(***************************************************************************)
Ray_new(origin, direction) == [origin |-> origin, direction |-> direction]
Ray_at(ray, t) == VAdd(ray.origin, VScale(t, ray.direction))

(***************************************************************************)
(* Interval                                                                *)
(***************************************************************************)
Interval_new(min, max) == [min |-> min, max |-> max]
Interval_contains(iv, x) == FLe(iv.min, x) /\ FLe(x, iv.max)
\* Mutant of Interval_surrounds: the bounds are accepted
Interval_surrounds_inclusive(iv, x) == FLe(iv.min, x) /\ FLe(x, iv.max)
Interval_surrounds(iv, x) == FLt(iv.min, x) /\ FLt(x, iv.max)

(***************************************************************************)
(* Option                                                                  *)
(***************************************************************************)
None == [some |-> FALSE]
Some(v) == [some |-> TRUE, val |-> v]

(***************************************************************************)
(* HitRecord                                                               *)
(***************************************************************************)
HitRecord_new(point, normal, t, front_face, material) ==
    [point |-> point, normal |-> normal, t |-> t,
     front_face |-> front_face, material |-> material]

\* Mutant of set_face_normal: the outward normal is stored whatever the side
set_face_normal_outward(rec, ray, outward_normal) ==
    LET ff == FLt(dot(ray.direction, outward_normal), 0)
    IN [rec EXCEPT !.front_face = ff, !.normal = outward_normal]

set_face_normal(rec, ray, outward_normal) ==
    LET ff == FLt(dot(ray.direction, outward_normal), 0)
    IN [rec EXCEPT !.front_face = ff,
                   !.normal = IF ff THEN outward_normal ELSE VNeg(outward_normal)]

(***************************************************************************)
(* Sphere                                                                  *)
(***************************************************************************)
Sphere_new(center, radius, material) ==
    [kind |-> "Sphere", center |-> center, radius |-> radius, material |-> material]

get_outward_normal(s, point_on_sphere) == VDivS(VSub(point_on_sphere, s.center), s.radius)

\* Mutant of Sphere_hit: the larger root is tried first
Sphere_hit_far_first(s, ray, ray_interval) ==
    LET distance == VSub(ray.origin, s.center)
        a == dot(ray.direction, ray.direction)
        half_b == dot(distance, ray.direction)
        c == FSub(dot(distance, distance), FMul(s.radius, s.radius))
        discriminant == FSub(FMul(half_b, half_b), FMul(a, c))
    IN IF FLt(discriminant, 0) THEN None
       ELSE LET sqrt_discriminant == FSqrt(discriminant)
                root1 == FDiv(FSub(FNeg(half_b), sqrt_discriminant), a)
                root2 == FDiv(FAdd(FNeg(half_b), sqrt_discriminant), a)
                Rec(root) ==
                    LET point == Ray_at(ray, root)
                        outward_normal == get_outward_normal(s, point)
                    IN set_face_normal(
                           HitRecord_new(point, outward_normal, root, FALSE, s.material),
                           ray, outward_normal)
            IN IF Interval_surrounds(ray_interval, root2) THEN Some(Rec(root2))
               ELSE IF Interval_surrounds(ray_interval, root1) THEN Some(Rec(root1))
               ELSE None

Sphere_hit(s, ray, ray_interval) ==
    LET distance == VSub(ray.origin, s.center)
        a == dot(ray.direction, ray.direction)
        half_b == dot(distance, ray.direction)
        c == FSub(dot(distance, distance), FMul(s.radius, s.radius))
        discriminant == FSub(FMul(half_b, half_b), FMul(a, c))
    IN IF FLt(discriminant, 0) THEN None
       ELSE LET sqrt_discriminant == FSqrt(discriminant)
                root1 == FDiv(FSub(FNeg(half_b), sqrt_discriminant), a)
                root2 == FDiv(FAdd(FNeg(half_b), sqrt_discriminant), a)
                Rec(root) ==
                    LET point == Ray_at(ray, root)
                        outward_normal == get_outward_normal(s, point)
                    IN set_face_normal(
                           HitRecord_new(point, outward_normal, root, FALSE, s.material),
                           ray, outward_normal)
            IN IF Interval_surrounds(ray_interval, root1) THEN Some(Rec(root1))
               ELSE IF Interval_surrounds(ray_interval, root2) THEN Some(Rec(root2))
               ELSE None

(***************************************************************************)
(* Paralellogram                                                           *)
(***************************************************************************)
\* f32::EPSILON (1.19e-7) is below the model's resolution: only an exact 0
\* is smaller in magnitude
F32_EPSILON == 1

Paralellogram_new(bottom_left_point, up, right, material) ==
    LET n == cross(right, up)
        normal == normalize(n)
    IN [kind |-> "Paralellogram",
        bottom_left_point |-> bottom_left_point, up |-> up, right |-> right,
        normal |-> normal,
        plane_parameter |-> dot(normal, bottom_left_point),
        w |-> VDivS(n, dot(n, n)),
        material |-> material]

\* Mutant of Paralellogram_t: the division is made whatever the denominator
Paralellogram_t_unguarded(p, ray) ==
    Some(FDiv(FSub(p.plane_parameter, dot(p.normal, ray.origin)),
              dot(p.normal, ray.direction)))

\* The ray parameter of the plane intersection: nothing when the early return
\* for a (near-)parallel ray is taken, else numerator / denominator
Paralellogram_t(p, ray) ==
    IF FLt(Abs(dot(p.normal, ray.direction)), F32_EPSILON) THEN None
    ELSE Some(FDiv(FSub(p.plane_parameter, dot(p.normal, ray.origin)),
                   dot(p.normal, ray.direction)))

Paralellogram_hit(p, ray, ray_interval) ==
    LET plane == Paralellogram_t(p, ray)
    IN IF ~plane.some THEN None
       ELSE LET t == plane.val
            IN IF ~Interval_contains(ray_interval, t) THEN None
               ELSE LET intersection == Ray_at(ray, t)
                        pp == VSub(intersection, p.bottom_left_point)
                        a == dot(p.w, cross(pp, p.up))
                        b == dot(p.w, cross(p.right, pp))
                        unit_interval == Interval_new(0, Scale)
                    IN IF ~Interval_contains(unit_interval, a)
                          \/ ~Interval_contains(unit_interval, b)
                       THEN None
                       ELSE Some(set_face_normal(
                                HitRecord_new(intersection, p.normal, t, TRUE, p.material),
                                ray, p.normal))

(***************************************************************************)
(* AnyHittable and the scene aggregate                                     *)
(***************************************************************************)
AnyHittable_hit(h, ray, ray_interval) ==
    IF h.kind = "Sphere" THEN Sphere_hit(h, ray, ray_interval)
    ELSE Paralellogram_hit(h, ray, ray_interval)

\* Mutant of Renderables_loop: every hit replaces the record and the search
\* interval is never shrunk
RECURSIVE Renderables_loop_last(_, _, _, _, _, _)
Renderables_loop_last(hs, i, ray, ray_interval, hit_record, closest_so_far) ==
    IF i > Len(hs) THEN hit_record
    ELSE LET cur == AnyHittable_hit(hs[i], ray, ray_interval)
         IN IF cur.some
            THEN Renderables_loop_last(hs, i + 1, ray, ray_interval, cur, closest_so_far)
            ELSE Renderables_loop_last(hs, i + 1, ray, ray_interval, hit_record,
                                       closest_so_far)

\* The loop of Renderables::hit from element i on, with the loop's two locals
RECURSIVE Renderables_loop(_, _, _, _, _, _)
Renderables_loop(hs, i, ray, ray_interval, hit_record, closest_so_far) ==
    IF i > Len(hs) THEN hit_record
    ELSE LET new_interval == Interval_new(ray_interval.min, closest_so_far)
             cur == AnyHittable_hit(hs[i], ray, new_interval)
         IN IF cur.some /\ (~hit_record.some \/ FLt(cur.val.t, hit_record.val.t))
            THEN Renderables_loop(hs, i + 1, ray, ray_interval, cur, cur.val.t)
            ELSE Renderables_loop(hs, i + 1, ray, ray_interval, hit_record, closest_so_far)

Renderables_hit(hs, ray, ray_interval) ==
    Renderables_loop(hs, 1, ray, ray_interval, None, ray_interval.max)

\* One iteration of the loop of Renderables::hit as it is observed: the interval
\* the primitive is queried with, the loop's closest_so_far before it, what the
\* primitive reported and whether the report replaced the record
LoopStep(new_interval, closest_so_far, cur, accepted) ==
    [interval |-> new_interval, closest_so_far |-> closest_so_far,
     reported |-> cur, accepted |-> accepted]

\* Mutant of Renderables_steps: every primitive is queried with the original
\* interval
RECURSIVE Renderables_steps_unshrunk(_, _, _, _, _, _)
Renderables_steps_unshrunk(hs, i, ray, ray_interval, hit_record, closest_so_far) ==
    IF i > Len(hs) THEN <<>>
    ELSE \* the interval is not rebuilt from closest_so_far
         LET cur == AnyHittable_hit(hs[i], ray, ray_interval)
             accepted == cur.some /\ (~hit_record.some \/ FLt(cur.val.t, hit_record.val.t))
         IN <<LoopStep(ray_interval, closest_so_far, cur, accepted)>> \o
            (IF accepted
             THEN Renderables_steps_unshrunk(hs, i + 1, ray, ray_interval, cur, cur.val.t)
             ELSE Renderables_steps_unshrunk(hs, i + 1, ray, ray_interval, hit_record,
                                             closest_so_far))

\* The iterations of the loop of Renderables::hit from element i on
RECURSIVE Renderables_steps(_, _, _, _, _, _)
Renderables_steps(hs, i, ray, ray_interval, hit_record, closest_so_far) ==
    IF i > Len(hs) THEN <<>>
    ELSE LET new_interval == Interval_new(ray_interval.min, closest_so_far)
             cur == AnyHittable_hit(hs[i], ray, new_interval)
             accepted == cur.some /\ (~hit_record.some \/ FLt(cur.val.t, hit_record.val.t))
         IN <<LoopStep(new_interval, closest_so_far, cur, accepted)>> \o
            (IF accepted
             THEN Renderables_steps(hs, i + 1, ray, ray_interval, cur, cur.val.t)
             ELSE Renderables_steps(hs, i + 1, ray, ray_interval, hit_record,
                                    closest_so_far))

(***************************************************************************)
(* RGBColor                                                                *)
(***************************************************************************)
RGBColor_new(r, g, b) == <<r, g, b>>
black == RGBColor_new(0, 0, 0)
white == RGBColor_new(Scale, Scale, Scale)
ColorAdd(c, d) == <<FAdd(c[1], d[1]), FAdd(c[2], d[2]), FAdd(c[3], d[3])>>
\* Mutant of ColorMul: the channels are added
ColorMul_sum(c, d) == <<FAdd(c[1], d[1]), FAdd(c[2], d[2]), FAdd(c[3], d[3])>>
ColorMul(c, d) == <<FMul(c[1], d[1]), FMul(c[2], d[2]), FMul(c[3], d[3])>>
ColorScale(k, c) == <<FMul(k, c[1]), FMul(k, c[2]), FMul(k, c[3])>>
ColorDiv(c, k) == <<FDiv(c[1], k), FDiv(c[2], k), FDiv(c[3], k)>>
lerp(start_color, end_color, a) ==
    ColorAdd(ColorScale(FSub(Scale, a), start_color), ColorScale(a, end_color))

(***************************************************************************)
(* Random sampling.  A draw of the generator is an input; the samplers     *)
(* compute their result from the draws as the code does.                   *)
(***************************************************************************)
\* f32::ln at the uniform draws of SamplerUniforms: ln 0 = -inf, ln e^-2, ln e^-0.5
ln(u) == CASE u = 0 -> -Infinity [] u = 135 -> -2 * Scale [] u = 607 -> -(Scale \div 2)

\* (2.0 * PI * u).sin() at the uniform draws 0, 1/4 and 3/4
sin_2pi(u) == CASE u = 0 -> 0 [] u = 250 -> Scale [] u = 750 -> -Scale

\* Box-Muller: u[1], u[2] are the two uniform draws
random_normal_number(u) ==
    LET sqrt_part == FSqrt(FMul(-2 * Scale, ln(u[1])))
        cos_part == sin_2pi(u[2])
    IN FMul(sqrt_part, cos_part)

\* random_vec3_on_unit_sphere from its four normal samples
random_vec3_on_unit_sphere(n4) ==
    LET x == n4[1]
        y == n4[2]
        z == n4[3]
        w == n4[4]
        norm == FSqrt(FAdd(FAdd(FAdd(FMul(x, x), FMul(y, y)), FMul(z, z)), FMul(w, w)))
    IN IF norm = Infinity THEN Vec(0, 0, 0)
       ELSE Vec(FDiv(x, norm), FDiv(y, norm), FDiv(z, norm))

reflect_vec3(vector, normal) ==
    VSub(vector, VScale(FMul(2 * Scale, dot(vector, normal)), normal))

refract_vec3(vector, normal, k) ==
    LET cos_theta == FMin(dot(VNeg(vector), normal), Scale)
        refracted_perpendicular == VScale(k, VAdd(vector, VScale(cos_theta, normal)))
        refracted_parallel ==
            VScale(FNeg(FSqrt(Abs(FSub(Scale,
                       dot(refracted_perpendicular, refracted_perpendicular))))),
                   normal)
    IN VAdd(refracted_perpendicular, refracted_parallel)

(***************************************************************************)
(* Materials                                                               *)
(***************************************************************************)
LambertarianDiffuse_new(albedo) ==
    [kind |-> "Lambertarian", albedo |-> albedo, roughness |-> 0, index_of_refraction |-> 0]
Metal_new(albedo, roughness) ==
    [kind |-> "Metal", albedo |-> albedo, roughness |-> roughness, index_of_refraction |-> 0]
Dielectric_new(index_of_refraction) ==
    [kind |-> "Dielectric", albedo |-> white, roughness |-> 0,
     index_of_refraction |-> index_of_refraction]

MaterialScatterOutput(scattered_ray, attenuation) ==
    [scattered_ray |-> scattered_ray, attenuation |-> attenuation]

\* Mutant of Lambertarian_scatter: a zero scatter direction absorbs the ray
Lambertarian_scatter_absorbing(m, incoming_ray, hit_record, rnd) ==
    LET random_unit_vector == random_vec3_on_unit_sphere(rnd.n4)
        scatter_direction == VAdd(hit_record.normal, random_unit_vector)
    IN IF scatter_direction = Vec(0, 0, 0) THEN None
       ELSE Some(MaterialScatterOutput(Ray_new(hit_record.point, scatter_direction),
                                       m.albedo))

\* rnd.n4: the four normal samples of random_vec3_on_unit_sphere
Lambertarian_scatter(m, incoming_ray, hit_record, rnd) ==
    LET random_unit_vector == random_vec3_on_unit_sphere(rnd.n4)
        scatter_direction == VAdd(hit_record.normal, random_unit_vector)
    IN Some(MaterialScatterOutput(Ray_new(hit_record.point, scatter_direction), m.albedo))

Metal_reflected(m, incoming_ray, hit_record, rnd) ==
    VAdd(reflect_vec3(normalize(incoming_ray.direction), hit_record.normal),
         VScale(m.roughness, random_vec3_on_unit_sphere(rnd.n4)))

\* Mutant of Metal_scatter: a ray along the surface is scattered too
Metal_scatter_grazing(m, incoming_ray, hit_record, rnd) ==
    LET reflected == Metal_reflected(m, incoming_ray, hit_record, rnd)
        scattered_ray == Ray_new(hit_record.point, reflected)
    IN IF FLe(0, dot(scattered_ray.direction, hit_record.normal))
       THEN Some(MaterialScatterOutput(scattered_ray, m.albedo))
       ELSE None

Metal_scatter(m, incoming_ray, hit_record, rnd) ==
    LET reflected == Metal_reflected(m, incoming_ray, hit_record, rnd)
        scattered_ray == Ray_new(hit_record.point, reflected)
    IN IF FLt(0, dot(scattered_ray.direction, hit_record.normal))
       THEN Some(MaterialScatterOutput(scattered_ray, m.albedo))
       ELSE None

\* (1.0 - cosine).powi(5)
Pow5(a) == FMul(FMul(FMul(FMul(a, a), a), a), a)

reflectance(cosine, k) ==
    LET r0 == FDiv(FSub(Scale, k), FAdd(Scale, k))
        r0_2 == FMul(r0, r0)
    IN FAdd(r0_2, FMul(FSub(Scale, r0_2), Pow5(FSub(Scale, cosine))))

Dielectric_refraction_ratio(m, hit_record) ==
    IF hit_record.front_face THEN FDiv(Scale, m.index_of_refraction)
    ELSE m.index_of_refraction

\* -unit_direction.dot(&hit_record.normal()).min(1.0)
Dielectric_cos_theta(incoming_ray, hit_record) ==
    FNeg(FMin(dot(normalize(incoming_ray.direction), hit_record.normal), Scale))

Dielectric_sin_theta(incoming_ray, hit_record) ==
    FSqrt(FSub(Scale, FMul(Dielectric_cos_theta(incoming_ray, hit_record),
                           Dielectric_cos_theta(incoming_ray, hit_record))))

Dielectric_cannot_refract(m, incoming_ray, hit_record) ==
    FLt(Scale, FMul(Dielectric_refraction_ratio(m, hit_record),
                    Dielectric_sin_theta(incoming_ray, hit_record)))

\* rnd.u: the value of rand::random()
Dielectric_randomly_reflects(m, incoming_ray, hit_record, rnd) ==
    FLt(rnd.u, reflectance(Dielectric_cos_theta(incoming_ray, hit_record),
                           Dielectric_refraction_ratio(m, hit_record)))

\* Mutant of Dielectric_scatter: cannot_refract is not consulted
Dielectric_scatter_random_only(m, incoming_ray, hit_record, rnd) ==
    LET unit_direction == normalize(incoming_ray.direction)
        direction == IF Dielectric_randomly_reflects(m, incoming_ray, hit_record, rnd)
                     THEN reflect_vec3(unit_direction, hit_record.normal)
                     ELSE refract_vec3(unit_direction, hit_record.normal,
                                       Dielectric_refraction_ratio(m, hit_record))
    IN Some(MaterialScatterOutput(Ray_new(hit_record.point, direction), white))

Dielectric_scatter(m, incoming_ray, hit_record, rnd) ==
    LET unit_direction == normalize(incoming_ray.direction)
        direction == IF \/ Dielectric_cannot_refract(m, incoming_ray, hit_record)
                        \/ Dielectric_randomly_reflects(m, incoming_ray, hit_record, rnd)
                     THEN reflect_vec3(unit_direction, hit_record.normal)
                     ELSE refract_vec3(unit_direction, hit_record.normal,
                                       Dielectric_refraction_ratio(m, hit_record))
    IN Some(MaterialScatterOutput(Ray_new(hit_record.point, direction), white))

AnyMaterial_scatter(m, incoming_ray, hit_record, rnd) ==
    IF m.kind = "Metal" THEN Metal_scatter(m, incoming_ray, hit_record, rnd)
    ELSE IF m.kind = "Lambertarian" THEN Lambertarian_scatter(m, incoming_ray, hit_record, rnd)
    ELSE Dielectric_scatter(m, incoming_ray, hit_record, rnd)

(***************************************************************************)
(* Intersection queries on their own: a ray, an interval and a primitive   *)
(* or a scene are chosen and the hit test is applied.                      *)
(***************************************************************************)
MatRed == LambertarianDiffuse_new(RGBColor_new(Scale, 0, 0))
MatBlue == LambertarianDiffuse_new(RGBColor_new(0, 0, Scale))
MatGreen == LambertarianDiffuse_new(RGBColor_new(0, Scale, 0))

HitSpheres ==
    { Sphere_new(Vec(0, 0, -2000), 1000, MatRed),
      Sphere_new(Vec(0, 0, -3000), 1000, MatBlue) }

HitParalellograms ==
    { Paralellogram_new(Vec(-1000, -1000, -1000), Vec(0, 2000, 0), Vec(2000, 0, 0), MatGreen),
      Paralellogram_new(Vec(-1000, -1000, -4000), Vec(0, 2000, 0), Vec(2000, 0, 0), MatRed) }

HitPrims == HitSpheres \cup HitParalellograms

HitRays ==
    { Ray_new(o, d) : o \in { Vec(0, 0, 0), Vec(0, 0, -1000), Vec(0, 0, -2000),
                              Vec(500, 0, 1000) },
                      d \in { Vec(0, 0, -1000), Vec(0, 0, 1000), Vec(0, 1000, 0),
                              Vec(0, 0, -2000), Vec(0, 600, -800) } }

HitIntervals ==
    { Interval_new(lo, hi) : lo \in { 1, 1000 }, hi \in { 1000, 2000, 3000, Infinity } }

\* The scenes: every insertion order of up to MaxPrims distinct primitives
MaxPrims == 3
HitScenes ==
    { sq \in UNION { [1..n -> HitPrims] : n \in 0..MaxPrims } :
        \A i, j \in DOMAIN sq : i # j => sq[i] # sq[j] }

\* The queries: hq is the query, hres its result once hq.done
HitQueries ==
    { [op |-> "sphere", prims |-> <<s>>, ray |-> ray, interval |-> iv, done |-> FALSE] :
        s \in HitSpheres, ray \in HitRays, iv \in HitIntervals }
    \cup
    { [op |-> "parallelogram", prims |-> <<p>>, ray |-> ray, interval |-> iv,
       done |-> FALSE] :
        p \in HitParalellograms, ray \in HitRays, iv \in HitIntervals }
    \cup
    { [op |-> "scene", prims |-> hs, ray |-> ray, interval |-> iv, done |-> FALSE] :
        hs \in HitScenes, ray \in HitRays, iv \in HitIntervals }

QuerySphere ==
    /\ hq.op = "sphere" /\ ~hq.done
    /\ hres' = Sphere_hit(hq.prims[1], hq.ray, hq.interval)
    /\ hq' = [hq EXCEPT !.done = TRUE]
    /\ UNCHANGED <<camVars, renderVars,
                   scatterVars, exportVars>>

QueryParalellogram ==
    /\ hq.op = "parallelogram" /\ ~hq.done
    /\ hres' = Paralellogram_hit(hq.prims[1], hq.ray, hq.interval)
    /\ hq' = [hq EXCEPT !.done = TRUE]
    /\ UNCHANGED <<camVars, renderVars,
                   scatterVars, exportVars>>

QueryScene ==
    /\ hq.op = "scene" /\ ~hq.done
    /\ hres' = Renderables_hit(hq.prims, hq.ray, hq.interval)
    /\ hq' = [hq EXCEPT !.done = TRUE]
    /\ UNCHANGED <<camVars, renderVars,
                   scatterVars, exportVars>>

(***************************************************************************)
(* Scatter queries on their own: a ray hits a primitive within the         *)
(* integrator's interval, and the material of the hit record scatters it   *)
(* with the draws rnd.                                                     *)
(***************************************************************************)
ScatterMaterials ==
    { LambertarianDiffuse_new(RGBColor_new(800, 500, 200)),
      Metal_new(RGBColor_new(800, 600, 200), 0),
      Metal_new(RGBColor_new(800, 600, 200), Scale),
      Dielectric_new(1500) }

ScatterPrims ==
    { Sphere_new(Vec(0, 0, -2000), 1000, m) : m \in ScatterMaterials }
    \cup
    { Paralellogram_new(Vec(-1000, -1000, -1000), Vec(0, 2000, 0), Vec(2000, 0, 0), m) :
        m \in ScatterMaterials }

ScatterRays ==
    { Ray_new(o, d) :
        o \in { Vec(0, 0, 0), Vec(0, 0, -2000), Vec(0, 500, -2000), Vec(0, 666, -2000),
                Vec(0, 667, -2000), Vec(0, 800, -2000) },
        d \in { Vec(0, 0, -1000), Vec(0, 0, 1000), Vec(0, 0, -2000), Vec(0, 600, -800) } }

\* The four normal samples and the value of rand::random()
ScatterDraws ==
    { [n4 |-> n, u |-> u] :
        n \in { <<0, Scale, 0, 0>>, <<0, -Scale, 0, 0>>, <<0, 0, Scale, 0>>,
                <<0, 0, -Scale, 0>>, <<600, 0, 800, 0>>, <<Scale, Scale, Scale, Scale>> },
        u \in { 0, 500, 999 } }

\* A head-on hit whose unit normal carries the rounding of its normalisation:
\* in f32 the dot product of two normalised vectors can be 1.0000001 (direction
\* (2, 2, 1) and the opposite normal); at the model's resolution the normal is
\* one unit above length 1
RoundedHeadOnHit(prim) ==
    HitRecord_new(Vec(0, 0, -Scale), Vec(0, 0, Scale + 1), Scale, TRUE, prim.material)

\* mq is the query, mres the result of scatter once mq.done; the hit is the one
\* ray_color finds, in the interval (0.001, infinity)
ScatterQueries ==
    { [prim |-> pr[1], ray |-> pr[2],
       hit_record |-> AnyHittable_hit(pr[1], pr[2], Interval_new(1, Infinity)).val,
       rnd |-> rnd, done |-> FALSE] :
        pr \in { q \in ScatterPrims \X ScatterRays :
                   AnyHittable_hit(q[1], q[2], Interval_new(1, Infinity)).some },
        rnd \in ScatterDraws }
    \cup
    { [prim |-> pr, ray |-> Ray_new(Vec(0, 0, 0), Vec(0, 0, -Scale)),
       hit_record |-> RoundedHeadOnHit(pr), rnd |-> rnd, done |-> FALSE] :
        pr \in ScatterPrims, rnd \in ScatterDraws }

ScatterLambertarian ==
    /\ ~mq.done /\ mq.hit_record.material.kind = "Lambertarian"
    /\ mres' = Some(Lambertarian_scatter(mq.hit_record.material, mq.ray, mq.hit_record,
                                          mq.rnd))
    /\ mq' = [mq EXCEPT !.done = TRUE]
    /\ UNCHANGED <<hitVars, camVars, renderVars, exportVars>>

ScatterMetal ==
    /\ ~mq.done /\ mq.hit_record.material.kind = "Metal"
    /\ mres' = Some(Metal_scatter(mq.hit_record.material, mq.ray, mq.hit_record, mq.rnd))
    /\ mq' = [mq EXCEPT !.done = TRUE]
    /\ UNCHANGED <<hitVars, camVars, renderVars, exportVars>>

ScatterDielectric ==
    /\ ~mq.done /\ mq.hit_record.material.kind = "Dielectric"
    /\ mres' = Some(Dielectric_scatter(mq.hit_record.material, mq.ray, mq.hit_record,
                                        mq.rnd))
    /\ mq' = [mq EXCEPT !.done = TRUE]
    /\ UNCHANGED <<hitVars, camVars, renderVars, exportVars>>

(***************************************************************************)
(* The unit-sphere sampler on its own: the generator gives four pairs of   *)
(* uniform draws, one pair per normal sample.                              *)
(***************************************************************************)
\* Pairs (u1, u2): the normal samples NaN, inf, 0, 1 and -2
SamplerUniforms == { <<0, 0>>, <<0, 250>>, <<607, 0>>, <<607, 250>>, <<135, 750>> }

SamplerQueries ==
    { [op |-> "sampler", draws |-> d, done |-> FALSE] : d \in [1..4 -> SamplerUniforms] }

normal_samples(draws) == [i \in 1..4 |-> random_normal_number(draws[i])]

SampleUnitSphere ==
    /\ mq.op = "sampler" /\ ~mq.done
    /\ mres' = Some(random_vec3_on_unit_sphere(normal_samples(mq.draws)))
    /\ mq' = [mq EXCEPT !.done = TRUE]
    /\ UNCHANGED <<hitVars, camVars, renderVars, exportVars>>

(***************************************************************************)
(* Vector4 and Matrix4x4                                                   *)
(***************************************************************************)
to_vector4(v) == <<v[1], v[2], v[3], Scale>>

Dot4(m, r, v) ==
    FAdd(FAdd(FAdd(FMul(v[1], m[r + 1]), FMul(v[2], m[r + 2])), FMul(v[3], m[r + 3])),
         FMul(v[4], m[r + 4]))

Vector4_transform(v, m) ==
    LET x == Dot4(m, 0, v)
        y == Dot4(m, 4, v)
        z == Dot4(m, 8, v)
        w == Dot4(m, 12, v)
    IN <<FDiv(x, w), FDiv(y, w), FDiv(z, w), FDiv(w, w)>>

Matrix4x4_identity ==
    <<Scale, 0, 0, 0,  0, Scale, 0, 0,  0, 0, Scale, 0,  0, 0, 0, Scale>>
Matrix4x4_from_translation(t) ==
    <<Scale, 0, 0, t[1],  0, Scale, 0, t[2],  0, 0, Scale, t[3],  0, 0, 0, Scale>>
Matrix4x4_from_scale(sc) ==
    <<sc[1], 0, 0, 0,  0, sc[2], 0, 0,  0, 0, sc[3], 0,  0, 0, 0, Scale>>

\* `sum += a * b` over k, starting from 0.0
MulSum(n, term(_)) ==
    LET RECURSIVE acc(_)
        acc(k) == IF k = 0 THEN 0 ELSE FAdd(acc(k - 1), term(k - 1))
    IN acc(n)

\* impl Mul for Matrix4x4; values are stored left to right, top to bottom
Matrix4x4_mul(self, rhs) ==
    [idx \in 1..16 |->
        LET i == (idx - 1) \div 4
            j == (idx - 1) % 4
            first_index == i * 4
            term(k) == FMul(self[first_index + k + 1], rhs[k * 4 + j + 1])
        IN MulSum(4, term)]

(***************************************************************************)
(* Matrix3x3                                                               *)
(***************************************************************************)
Matrix3x3_identity == <<Scale, 0, 0,  0, Scale, 0,  0, 0, Scale>>
Matrix3x3_zeros == <<0, 0, 0,  0, 0, 0,  0, 0, 0>>
Matrix3x3_from_scale(sc) == <<sc[1], 0, 0,  0, sc[2], 0,  0, 0, sc[3]>>

\* impl Mul for Matrix3x3: the right operand is read at k * 3 + k
Matrix3x3_mul(self, rhs) ==
    [idx \in 1..9 |->
        LET i == (idx - 1) \div 3
            first_index == i * 3
            term(k) == FMul(self[first_index + k + 1], rhs[k * 3 + k + 1])
        IN MulSum(3, term)]

\* The 3x3 matrix as the upper-left block of a 4x4 matrix, and back
Embed4(m) ==
    <<m[1], m[2], m[3], 0,  m[4], m[5], m[6], 0,  m[7], m[8], m[9], 0,  0, 0, 0, Scale>>
UpperLeft3(m) == <<m[1], m[2], m[3],  m[5], m[6], m[7],  m[9], m[10], m[11]>>

\* Matrices multiplied: identity, zeros, a scaling, a quarter turn about z,
\* an upper triangular and a full matrix
Matrices3 ==
    { Matrix3x3_identity, Matrix3x3_zeros,
      Matrix3x3_from_scale(Vec(2 * Scale, 3 * Scale, 4 * Scale)),
      <<0, -Scale, 0,  Scale, 0, 0,  0, 0, Scale>>,
      <<Scale, 2 * Scale, 3 * Scale,  0, Scale, 4 * Scale,  0, 0, Scale>>,
      <<Scale, 2 * Scale, 3 * Scale,  4 * Scale, 5 * Scale, 6 * Scale,
        7 * Scale, 8 * Scale, 9 * Scale>>,
      <<500, -Scale, 0,  250, 0, 2 * Scale,  -3 * Scale, Scale, 1500>>,
      <<0, 0, Scale,  0, Scale, 0,  Scale, 0, 0>> }

MatrixQueries ==
    { [op |-> "mul3", lhs |-> a, rhs |-> b, done |-> FALSE] : a \in Matrices3, b \in Matrices3 }
    \cup
    { [op |-> "mul4", lhs |-> Embed4(a), rhs |-> Embed4(b), done |-> FALSE] :
        a \in Matrices3, b \in Matrices3 }

MulMatrix3x3 ==
    /\ mq.op = "mul3" /\ ~mq.done
    /\ mres' = Some(Matrix3x3_mul(mq.lhs, mq.rhs))
    /\ mq' = [mq EXCEPT !.done = TRUE]
    /\ UNCHANGED <<hitVars, camVars, renderVars, exportVars>>

MulMatrix4x4 ==
    /\ mq.op = "mul4" /\ ~mq.done
    /\ mres' = Some(Matrix4x4_mul(mq.lhs, mq.rhs))
    /\ mq' = [mq EXCEPT !.done = TRUE]
    /\ UNCHANGED <<hitVars, camVars, renderVars, exportVars>>

(***************************************************************************)
(* Camera                                                                  *)
(***************************************************************************)
\* tan of half an angle given in degrees: (a / 2.0).to_radians().tan(),
\* tabulated for the angles the model uses
tan_half_degrees(a) ==
    CASE a = 0 -> 0
      [] a = 20000 -> 176
      [] a = 60000 -> 577
      [] a = 90000 -> 1000
      [] a = 120000 -> 1732

update_transforms(c) ==
    LET h == tan_half_degrees(c.vertical_fov)
        aspect_ratio == FDiv(c.width, c.height)
        viewport_height == FMul(FMul(2 * Scale, h), c.dof_distance)
        viewport_width == FMul(viewport_height, aspect_ratio)
        look_difference == normalize(VSub(c.origin, c.look_at))
        side_direction == normalize(cross(c.up, look_difference))
        up_direction == cross(look_difference, side_direction)
        viewport_side == VScale(viewport_width, side_direction)
        viewport_up == VScale(viewport_height, VNeg(up_direction))
        pixel_horizontal_shift == VDivS(viewport_side, c.width)
        pixel_vertical_shift == VDivS(viewport_up, c.height)
        corner == VSub(VSub(VSub(c.origin, VScale(c.dof_distance, look_difference)),
                            VDivS(viewport_side, 2 * Scale)),
                       VDivS(viewport_up, 2 * Scale))
        upper_left == VAdd(corner,
                           VScale(Scale \div 2,
                                  VAdd(pixel_horizontal_shift, pixel_vertical_shift)))
        depth_of_field_radius == FMul(c.dof_distance, tan_half_degrees(c.dof_angle))
    IN [c EXCEPT !.upper_left = upper_left,
                 !.horizontal_shift = pixel_horizontal_shift,
                 !.vertical_shift = pixel_vertical_shift,
                 !.dof_disk_horizontal = VScale(depth_of_field_radius, side_direction),
                 !.dof_disk_vertical = VScale(depth_of_field_radius, up_direction)]

\* The struct literal of Camera::default and Camera::new, before update_transforms
CameraFields(width, height, vertical_fov, dof_distance, dof_angle) ==
    [origin |-> Vec(0, 0, 0), look_at |-> Vec(0, 0, -Scale), up |-> Vec(0, Scale, 0),
     upper_left |-> Vec(0, 0, 0),
     horizontal_shift |-> Vec(0, 0, 0), vertical_shift |-> Vec(0, 0, 0),
     width |-> width, height |-> height, vertical_fov |-> vertical_fov,
     dof_angle |-> dof_angle, dof_distance |-> dof_distance,
     dof_disk_horizontal |-> Vec(0, 0, 0), dof_disk_vertical |-> Vec(0, 0, 0)]

DefaultWidth == 256
DefaultHeight == 256
DefaultFov == 60000

Camera_default ==
    update_transforms(CameraFields(AsF32(DefaultWidth), AsF32(DefaultHeight),
                                   DefaultFov, Scale, 0))

\* Mutant of Camera_new: the size test fires only when both sizes are 0
Camera_new_both_zero(width, height, vertical_fov, dof_distance, dof_cone_angle) ==
    IF AsF32(height) = 0 /\ AsF32(width) = 0
    THEN [panic |-> TRUE]
    ELSE [panic |-> FALSE,
          camera |-> update_transforms(CameraFields(AsF32(width), AsF32(height),
                                                    vertical_fov, dof_distance,
                                                    dof_cone_angle))]

\* Camera::new: the panic, or the camera it returns
Camera_new(width, height, vertical_fov, dof_distance, dof_cone_angle) ==
    IF AsF32(height) = 0 \/ AsF32(width) = 0
    THEN [panic |-> TRUE]
    ELSE [panic |-> FALSE,
          camera |-> update_transforms(CameraFields(AsF32(width), AsF32(height),
                                                    vertical_fov, dof_distance,
                                                    dof_cone_angle))]

set_up_direction(c, up) == update_transforms([c EXCEPT !.up = up])
set_width(c, width) == update_transforms([c EXCEPT !.width = AsF32(width)])
set_height(c, height) == update_transforms([c EXCEPT !.height = AsF32(height)])
set_vertical_fov(c, fov) == update_transforms([c EXCEPT !.vertical_fov = fov])
\* Mutant of set_position: the derived state is not recomputed
set_position_stale(c, position) == [c EXCEPT !.origin = position]
set_position(c, position) == update_transforms([c EXCEPT !.origin = position])
set_defocus(c, dof_distance, dof_cone_angle) ==
    update_transforms([c EXCEPT !.dof_distance = dof_distance,
                                !.dof_angle = dof_cone_angle])
look_at(c, target) == update_transforms([c EXCEPT !.look_at = normalize(target)])

Xyz(v4) == Vec(v4[1], v4[2], v4[3])

transform(c, matrix) ==
    update_transforms(
        [c EXCEPT !.origin = Xyz(Vector4_transform(to_vector4(c.origin), matrix)),
                  !.look_at = Xyz(Vector4_transform(to_vector4(c.look_at), matrix)),
                  !.up = Xyz(Vector4_transform(to_vector4(c.up), matrix))])

get_pixel_center(c, i, j) ==
    VAdd(VAdd(c.upper_left, VScale(AsF32(i), c.horizontal_shift)),
         VScale(AsF32(j), c.vertical_shift))

\* jit: the two uniform draws of sample_pixel_square
sample_pixel_square(c, jit) ==
    LET pxs == FAdd(-(Scale \div 2), jit[1])
        pys == FAdd(-(Scale \div 2), jit[2])
    IN VAdd(VScale(pxs, c.horizontal_shift), VScale(pys, c.vertical_shift))

get_random_location_on_pixel(c, i, j, jit) ==
    VAdd(get_pixel_center(c, i, j), sample_pixel_square(c, jit))

get_ray_through_pixel_center(c, i, j) ==
    Ray_new(c.origin, VSub(get_pixel_center(c, i, j), c.origin))

\* disk: the point random_on_unit_disk returns
get_random_ray_through_pixel(c, i, j, disk, jit) ==
    LET origin == IF FLe(c.dof_angle, 0) THEN c.origin
                  ELSE VAdd(VAdd(c.origin, VScale(disk[1], c.dof_disk_horizontal)),
                            VScale(disk[2], c.dof_disk_vertical))
    IN Ray_new(origin, VSub(get_random_location_on_pixel(c, i, j, jit), origin))

(***************************************************************************)
(* Camera operations as actions.  cam is None before construction;         *)
(* camPanic records the abort of Camera::new; camOp the last operation.    *)
(***************************************************************************)
MaxCamSize == 1
MaxTransforms == 1
CamSizes == 0..MaxCamSize
CamFovs == { 90000 }
CamPositions == { Vec(-3000, 3000, 1000) }
CamTargets == { Vec(2000, 0, -2000) }
CamUps == { Vec(1000, 0, 0) }
CamDefocus == { <<2000, 20000>> }
CamMatrices == { Matrix4x4_from_translation(Vec(1000, 0, 0)),
                 Matrix4x4_from_scale(Vec(2000, 2000, 2000)) }

CamOp(name, a, b) == [name |-> name, a |-> a, b |-> b, nt |-> camOp.nt]

CameraDefault ==
    /\ ~camPanic
    /\ cam' = Some(Camera_default)
    /\ camOp' = CamOp("default", 0, 0)
    /\ UNCHANGED <<camPanic, hitVars, renderVars,
                   scatterVars, exportVars>>

CameraNew ==
    /\ ~camPanic
    /\ \E w \in CamSizes, h \in CamSizes, fov \in CamFovs, d \in CamDefocus :
         LET r == Camera_new(w, h, fov, d[1], d[2])
         IN /\ camOp' = CamOp("new", w, h)
            /\ IF r.panic
               THEN camPanic' = TRUE /\ cam' = cam
               ELSE camPanic' = FALSE /\ cam' = Some(r.camera)
    /\ UNCHANGED <<hitVars, renderVars,
                   scatterVars, exportVars>>

SetUpDirection ==
    /\ ~camPanic /\ cam.some
    /\ \E up \in CamUps :
         /\ cam' = Some(set_up_direction(cam.val, up))
         /\ camOp' = CamOp("set_up_direction", 0, 0)
    /\ UNCHANGED <<camPanic, hitVars, renderVars,
                   scatterVars, exportVars>>

SetWidth ==
    /\ ~camPanic /\ cam.some
    /\ \E w \in CamSizes :
         /\ cam' = Some(set_width(cam.val, w))
         /\ camOp' = CamOp("set_width", 0, 0)
    /\ UNCHANGED <<camPanic, hitVars, renderVars,
                   scatterVars, exportVars>>

SetHeight ==
    /\ ~camPanic /\ cam.some
    /\ \E h \in CamSizes :
         /\ cam' = Some(set_height(cam.val, h))
         /\ camOp' = CamOp("set_height", 0, 0)
    /\ UNCHANGED <<camPanic, hitVars, renderVars,
                   scatterVars, exportVars>>

SetVerticalFov ==
    /\ ~camPanic /\ cam.some
    /\ \E fov \in CamFovs :
         /\ cam' = Some(set_vertical_fov(cam.val, fov))
         /\ camOp' = CamOp("set_vertical_fov", 0, 0)
    /\ UNCHANGED <<camPanic, hitVars, renderVars,
                   scatterVars, exportVars>>

SetPosition ==
    /\ ~camPanic /\ cam.some
    /\ \E pos \in CamPositions :
         /\ cam' = Some(set_position(cam.val, pos))
         /\ camOp' = CamOp("set_position", 0, 0)
    /\ UNCHANGED <<camPanic, hitVars, renderVars,
                   scatterVars, exportVars>>

SetDefocus ==
    /\ ~camPanic /\ cam.some
    /\ \E d \in CamDefocus :
         /\ cam' = Some(set_defocus(cam.val, d[1], d[2]))
         /\ camOp' = CamOp("set_defocus", 0, 0)
    /\ UNCHANGED <<camPanic, hitVars, renderVars,
                   scatterVars, exportVars>>

LookAt ==
    /\ ~camPanic /\ cam.some
    /\ \E target \in CamTargets :
         /\ cam' = Some(look_at(cam.val, target))
         /\ camOp' = CamOp("look_at", target, 0)
    /\ UNCHANGED <<camPanic, hitVars, renderVars,
                   scatterVars, exportVars>>

Transform ==
    /\ ~camPanic /\ cam.some
    /\ camOp.nt < MaxTransforms
    /\ \E m \in CamMatrices :
         /\ cam' = Some(transform(cam.val, m))
         /\ camOp' = [name |-> "transform", a |-> 0, b |-> 0, nt |-> camOp.nt + 1]
    /\ UNCHANGED <<camPanic, hitVars, renderVars,
                   scatterVars, exportVars>>

\* A ray query: the ray through the centre of pixel (i, j)
GetRay ==
    /\ ~camPanic /\ cam.some
    /\ \E i \in 0..1, j \in { 0 } :
         camOp' = CamOp("get_ray_through_pixel_center", <<i, j>>,
                        get_ray_through_pixel_center(cam.val, i, j))
    /\ UNCHANGED <<cam, camPanic, hitVars, renderVars,
                   scatterVars, exportVars>>

(***************************************************************************)
(* Scene preparation                                                       *)
(***************************************************************************)
sky_background(ray) ==
    LET unit_direction == normalize(ray.direction)
        parameter == FMul(Scale \div 2, FAdd(unit_direction[2], Scale))
    IN lerp(RGBColor_new(Scale, Scale, Scale), RGBColor_new(500, 700, Scale), parameter)

\* cos(PI / 4)
CosQuarterPi == 707

\* The objects prepare_render_data places
PreparedRenderables ==
    << Sphere_new(Vec(-CosQuarterPi, 0, -Scale), CosQuarterPi,
                  LambertarianDiffuse_new(RGBColor_new(0, 0, Scale))),
       Sphere_new(Vec(CosQuarterPi, 0, -Scale), CosQuarterPi,
                  LambertarianDiffuse_new(RGBColor_new(Scale, 0, 0))),
       Paralellogram_new(Vec(-Scale, 0, -Scale), Vec(Scale, 0, 0), Vec(0, 0, Scale),
                         LambertarianDiffuse_new(RGBColor_new(0, Scale, 0))) >>

\* Object placement and material choice are scene-construction data: the
\* placement of prepare_render_data, and others exercising the other materials
Placements ==
    { [position |-> Vec(-3000, 3000, 1000), target |-> Vec(0, 0, -Scale),
       renderables |-> PreparedRenderables],
      [position |-> Vec(0, 0, 1000), target |-> Vec(0, 0, -Scale),
       renderables |->
         << Sphere_new(Vec(0, 0, -Scale), 500,
                       Metal_new(RGBColor_new(800, 800, 800), Scale)),
            Paralellogram_new(Vec(-2000, -500, -2000), Vec(0, 0, 4000), Vec(4000, 0, 0),
                              LambertarianDiffuse_new(RGBColor_new(500, 500, 500))) >>],
      [position |-> Vec(0, 0, 1000), target |-> Vec(0, 0, -Scale),
       renderables |->
         << Sphere_new(Vec(0, 0, 0), 500, Dielectric_new(1500)),
            Paralellogram_new(Vec(-3000, -3000, -Scale), Vec(0, 6000, 0), Vec(6000, 0, 0),
                              LambertarianDiffuse_new(RGBColor_new(500, 500, 500))) >>] }

prepare_render_data(arguments, placement) ==
    LET c1 == set_width(Camera_default, arguments.output_width)
        c2 == set_height(c1, arguments.output_height)
        c3 == set_vertical_fov(c2, arguments.fov)
        c4 == set_defocus(c3, arguments.dof_distance, arguments.dof_size)
        c5 == look_at(c4, placement.target)
        c6 == set_position(c5, placement.position)
    IN [camera |-> c6, renderables |-> placement.renderables]

(***************************************************************************)
(* The integrator                                                          *)
(***************************************************************************)
\* The lower bound 0.001 of the integrator's ray interval
RayMin == 1

\* What an invocation of ray_color reports: either the colour it returns or
\* the arguments of its recursive call with the attenuation that multiplies
\* the result of that call; and which collaborators it consulted
Returned(why, color, hit_queried, scatter_called, background_called) ==
    [kind |-> "return", why |-> why, color |-> color, hit_queried |-> hit_queried,
     scatter_called |-> scatter_called, background_called |-> background_called]
Recursing(material_result, depth) ==
    [kind |-> "recurse", why |-> "scattered", ray |-> material_result.scattered_ray,
     depth |-> depth, attenuation |-> material_result.attenuation,
     hit_queried |-> TRUE, scatter_called |-> TRUE, background_called |-> FALSE]

\* Mutant of ray_color_scattered: the recursive call is made with the same depth
ray_color_same_depth(material_result, depth) ==
    IF material_result.some
    THEN Recursing(material_result.val, depth)
    ELSE Returned("absorbed", black, TRUE, TRUE, FALSE)

\* Mutant of ray_color_scattered: an absorbed ray returns white
ray_color_absorbed_white(material_result, depth) ==
    IF material_result.some
    THEN Recursing(material_result.val, depth - 1)
    ELSE Returned("absorbed", white, TRUE, TRUE, FALSE)

\* `if let Some(material_result) = ...scatter(..)`: the recursive call with
\* depth - 1, or black when the material absorbed the ray
ray_color_scattered(material_result, depth) ==
    IF material_result.some
    THEN Recursing(material_result.val, depth - 1)
    ELSE Returned("absorbed", black, TRUE, TRUE, FALSE)

\* `if let Some(hit_record) = scene_data.renderables.hit(..)`: the scatter of
\* the material that was hit, or the background of the ray on a miss
ray_color_hit(ray, hit_record, depth, rnd) ==
    IF hit_record.some
    THEN ray_color_scattered(
             AnyMaterial_scatter(hit_record.val.material, ray, hit_record.val, rnd), depth)
    ELSE Returned("miss", sky_background(ray), TRUE, FALSE, TRUE)

\* Mutant of ray_color: the scene is queried before the depth is tested
ray_color_query_first(ray, renderables, depth, rnd) ==
    IF depth = 0
    THEN Returned("depth0", black, TRUE, FALSE, FALSE)
    ELSE ray_color_hit(ray,
                       Renderables_hit(renderables, ray, Interval_new(RayMin, Infinity)),
                       depth, rnd)

\* Mutant of ray_color: the ray interval starts at 0
ray_color_from_zero(ray, renderables, depth, rnd) ==
    IF depth = 0
    THEN Returned("depth0", black, FALSE, FALSE, FALSE)
    ELSE ray_color_hit(ray, Renderables_hit(renderables, ray, Interval_new(0, Infinity)),
                       depth, rnd)

\* One invocation of ray_color up to its return or its recursive call; rnd
\* holds the generator draws the invocation may consume
ray_color(ray, renderables, depth, rnd) ==
    IF depth = 0
    THEN Returned("depth0", black, FALSE, FALSE, FALSE)
    ELSE ray_color_hit(ray,
                       Renderables_hit(renderables, ray, Interval_new(RayMin, Infinity)),
                       depth, rnd)

\* Mutant of ray_color_result: the colours are added
ray_color_result_sum(attenuation, deeper_result) == ColorAdd(attenuation, deeper_result)

\* `attenuation * deeper_result` of a pending invocation
ray_color_result(attenuation, deeper_result) == ColorMul(attenuation, deeper_result)

(***************************************************************************)
(* The program: prepare_render_data, then render.                          *)
(*   pc = "prepare"   before prepare_render_data                           *)
(*   pc = "render"    at the entry of render                               *)
(*   pc = "pixel"     in the body of the pixel loop, at pixel (px, py),    *)
(*                    with `sample` rays of the pixel already traced       *)
(*   pc = "ray_color" inside a ray_color call made by the pixel loop       *)
(*   pc = "rendered"  render has returned its RenderResult                 *)
(* stack holds the invocations of ray_color that have not returned, the    *)
(* innermost last; retval the colour a returning invocation hands to its   *)
(* caller.  stats, pixlog and lastEvent are history variables: the         *)
(* collaborator calls of the current top-level ray_color call, the rays    *)
(* and results of the current pixel, and the last step taken.              *)
(***************************************************************************)
MaxWidth == 2
MaxHeight == 2
MaxSamples == 2
MaxSteps == 2

ArgFovs == { 90000 }
ArgDefocus == { <<Scale, 0>>, <<Scale, 20000>> }

MaxRays == 4
ArgGamma == { TRUE }
Arguments ==
    { [output_width |-> w, output_height |-> h, samples_per_pixel |-> n, steps |-> d,
       fov |-> f, dof_distance |-> df[1], dof_size |-> df[2], gamma_correction |-> g] :
        w \in 0..MaxWidth, h \in 0..MaxHeight, n \in 1..MaxSamples, d \in 0..MaxSteps,
        f \in ArgFovs, df \in ArgDefocus, g \in ArgGamma }

\* The runs: images of at most MaxRays primary rays in all
Runs == { a \in Arguments : a.output_width * a.output_height * a.samples_per_pixel <= MaxRays }

\* The draws an invocation of ray_color may consume: the four normal samples
\* of the unit-sphere sampler (Lambertian and Metal scatter) or the value of
\* rand::random() (Dielectric scatter)
NormalDraws == { <<0, Scale, 0, 0>>, <<0, -Scale, 0, 0>>, <<0, 0, Scale, Scale>>,
                 <<0, 0, -Scale, 0>> }
UniformDraws == { 0, 999 }
NoDraw == [n4 |-> <<0, Scale, 0, 0>>, u |-> 0]
\* The draws the invocation on this ray consumes: none unless it reaches
\* scatter, and then those of the material that was hit
DrawsOfHit(hit_record) ==
    IF ~hit_record.some THEN { NoDraw }
    ELSE IF hit_record.val.material.kind = "Dielectric"
         THEN { [NoDraw EXCEPT !.u = u] : u \in UniformDraws }
         ELSE { [NoDraw EXCEPT !.n4 = n] : n \in NormalDraws }
DrawsOf(ray, renderables, depth) ==
    IF depth = 0 THEN { NoDraw }
    ELSE DrawsOfHit(Renderables_hit(renderables, ray, Interval_new(RayMin, Infinity)))

\* The point random_on_unit_disk returns and the two draws of sample_pixel_square
DiskDraws == { <<0, 0>>, <<Scale, 0>> }
JitterDraws == { <<0, 0>>, <<999, 500>> }

NoStats == [hit_queries |-> 0, scatter_calls |-> 0, background_calls |-> 0, calls |-> 0]
Frame(ray, depth) == [ray |-> ray, depth |-> depth, attenuation |-> black]
B2N(b) == IF b THEN 1 ELSE 0

\* `RenderResult { width, height, image_data: color_data }`
RenderResult(width, height, image_data) ==
    [width |-> width, height |-> height, image_data |-> image_data]

\* Mutant of push: the colour is put in front of the buffer
push_front(data, color) == <<color>> \o data

\* `color_data.push(pixel_color)`
push(data, color) == Append(data, color)

\* Mutant of pixel_average: the sum is not divided
pixel_average_sum(color, samples_per_pixel) == color

\* `pixel_color / arguments.samples_per_pixel as f32`
pixel_average(color, samples_per_pixel) == ColorDiv(color, AsF32(samples_per_pixel))

PrepareRenderData ==
    /\ pc = "prepare"
    /\ \E placement \in Placements :
         \E scene_data \in { prepare_render_data(args, placement) } :
            /\ cam' = Some(scene_data.camera)
            /\ scene' = scene_data.renderables
    /\ pc' = "render"
    /\ lastEvent' = [kind |-> "prepare"]
    /\ UNCHANGED <<args, px, py, sample, pixel_color, color_data, stack, retval, stats,
                   pixlog, camPanic, camOp, hitVars,
                   scatterVars, exportVars>>

\* render up to the first iteration of the pixel loop
RenderStart ==
    /\ pc = "render"
    /\ IF args.output_height = 0 \/ args.output_width = 0
       THEN /\ pc' = "rendered"
            /\ render_result' =
                   Some(RenderResult(args.output_width, args.output_height, <<>>))
       ELSE /\ pc' = "pixel"
            /\ UNCHANGED render_result
    /\ px' = 0 /\ py' = 0 /\ sample' = 0
    /\ pixel_color' = black
    /\ color_data' = <<>>
    /\ pixlog' = <<>>
    /\ lastEvent' = [kind |-> "render"]
    /\ UNCHANGED <<args, scene, stack, retval, stats, camVars, hitVars,
                   scatterVars, postprocessing_result, ppm_data>>

\* samples_per_pixel == 1: the call of ray_color on the ray through the centre
ShootCenterRay ==
    /\ pc = "pixel" /\ args.samples_per_pixel = 1 /\ sample = 0
    /\ \E ray \in { get_ray_through_pixel_center(cam.val, px, py) } :
          /\ stack' = <<Frame(ray, args.steps)>>
          /\ pixlog' = Append(pixlog, [center |-> TRUE, ray |-> ray, result |-> black])
    /\ pc' = "ray_color"
    /\ retval' = None
    /\ stats' = NoStats
    /\ lastEvent' = [kind |-> "shoot"]
    /\ UNCHANGED <<args, scene, px, py, sample, pixel_color, color_data, camVars, hitVars,
                   scatterVars, exportVars>>

\* otherwise: the call of ray_color on a random ray through the pixel
ShootRandomRay ==
    /\ pc = "pixel" /\ args.samples_per_pixel # 1 /\ sample < args.samples_per_pixel
    /\ \E disk \in DiskDraws, jit \in JitterDraws :
         \E ray \in { get_random_ray_through_pixel(cam.val, px, py, disk, jit) } :
            /\ stack' = <<Frame(ray, args.steps)>>
            /\ pixlog' = Append(pixlog, [center |-> FALSE, ray |-> ray, result |-> black])
    /\ pc' = "ray_color"
    /\ retval' = None
    /\ stats' = NoStats
    /\ lastEvent' = [kind |-> "shoot"]
    /\ UNCHANGED <<args, scene, px, py, sample, pixel_color, color_data, camVars, hitVars,
                   scatterVars, exportVars>>

\* The innermost invocation of ray_color runs to its return or to its
\* recursive call
RayColorCall ==
    /\ pc = "ray_color" /\ ~retval.some /\ stack # <<>>
    /\ \E top \in { stack[Len(stack)] } :
         \E rnd \in DrawsOf(top.ray, scene, top.depth) :
           \E out \in { ray_color(top.ray, scene, top.depth, rnd) } :
             /\ IF out.kind = "return"
                THEN /\ retval' = Some(out.color)
                     /\ stack' = SubSeq(stack, 1, Len(stack) - 1)
                ELSE /\ retval' = None
                     /\ stack' = Append([stack EXCEPT ![Len(stack)].attenuation =
                                                          out.attenuation],
                                        Frame(out.ray, out.depth))
             /\ stats' = [hit_queries |-> stats.hit_queries + B2N(out.hit_queried),
                          scatter_calls |-> stats.scatter_calls + B2N(out.scatter_called),
                          background_calls |->
                              stats.background_calls + B2N(out.background_called),
                          calls |-> stats.calls + 1]
             /\ lastEvent' = [kind |-> "call", ray |-> top.ray, depth |-> top.depth,
                              level |-> Len(stack), rnd |-> rnd, out |-> out]
    /\ UNCHANGED <<args, scene, pc, px, py, sample, pixel_color, color_data, pixlog,
                   camVars, hitVars,
                   scatterVars, exportVars>>

\* A pending invocation receives the result of its recursive call and returns
RayColorReturn ==
    /\ pc = "ray_color" /\ retval.some /\ stack # <<>>
    /\ LET n == Len(stack)
           result == ray_color_result(stack[n].attenuation, retval.val)
       IN /\ retval' = Some(result)
          /\ stack' = SubSeq(stack, 1, n - 1)
          /\ lastEvent' = [kind |-> "return", level |-> n, depth |-> stack[n].depth,
                           attenuation |-> stack[n].attenuation,
                           deeper_result |-> retval.val, result |-> result]
    /\ UNCHANGED <<args, scene, pc, px, py, sample, pixel_color, color_data, stats, pixlog,
                   camVars, hitVars,
                   scatterVars, exportVars>>

\* The outermost invocation has returned to the pixel loop
SampleDone ==
    /\ pc = "ray_color" /\ retval.some /\ stack = <<>>
    /\ pixel_color' = IF args.samples_per_pixel = 1 THEN retval.val
                      ELSE ColorAdd(pixel_color, retval.val)
    /\ pixlog' = [pixlog EXCEPT ![Len(pixlog)].result = retval.val]
    /\ sample' = sample + 1
    /\ retval' = None
    /\ pc' = "pixel"
    /\ lastEvent' = [kind |-> "sample", result |-> retval.val]
    /\ UNCHANGED <<args, scene, px, py, color_data, stack, stats, camVars, hitVars,
                   scatterVars, exportVars>>

\* The end of the loop body: the average is pushed and the loop advances
PixelDone ==
    /\ pc = "pixel"
    /\ IF args.samples_per_pixel = 1 THEN sample = 1 ELSE sample = args.samples_per_pixel
    /\ LET color == pixel_average(pixel_color, args.samples_per_pixel)
           lastx == px + 1 = args.output_width
           lasty == py + 1 = args.output_height
       IN /\ color_data' = push(color_data, color)
          /\ px' = IF lastx THEN 0 ELSE px + 1
          /\ py' = IF lastx THEN py + 1 ELSE py
          /\ IF lastx /\ lasty
             THEN /\ pc' = "rendered"
                  /\ render_result' =
                         Some(RenderResult(args.output_width, args.output_height,
                                           color_data'))
             ELSE /\ pc' = "pixel"
                  /\ UNCHANGED render_result
          /\ lastEvent' = [kind |-> "pixel", x |-> px, y |-> py, color |-> color,
                           log |-> pixlog]
    /\ sample' = 0
    /\ pixel_color' = black
    /\ pixlog' = <<>>
    /\ UNCHANGED <<args, scene, stack, retval, stats, camVars, hitVars,
                   scatterVars, postprocessing_result, ppm_data>>

(***************************************************************************)
(* Postprocessing and export: main hands the RenderResult to postprocess   *)
(* and its result to export_to_file, which serialises it with              *)
(* rgb_to_binary_ppm.                                                      *)
(*   pc = "postprocessed"  postprocess has returned                        *)
(*   pc = "exported"       export_to_file has returned Ok                  *)
(*   pc = "failed"         export_to_file has returned an error            *)
(*   pc = "panicked"       export_to_file has panicked                     *)
(***************************************************************************)
\* f32::clamp(0.0, 1.0): NaN stays NaN
clamp_f32(a) == IF a = NaN THEN NaN ELSE IF a < 0 THEN 0 ELSE IF a > Scale THEN Scale ELSE a

\* RGBColor::clamp
clamp(c) == <<clamp_f32(c[1]), clamp_f32(c[2]), clamp_f32(c[3])>>

\* RGBColor::linear_to_gamma
linear_to_gamma(c) == <<FSqrt(c[1]), FSqrt(c[2]), FSqrt(c[3])>>

\* gamma_correction::linear_to_gamma_space
linear_to_gamma_space(image_data) ==
    [i \in DOMAIN image_data |-> linear_to_gamma(image_data[i])]

PostProcessResult(width, height, image_data) ==
    [width |-> width, height |-> height, image_data |-> image_data]

postprocess(argumets, result) ==
    PostProcessResult(result.width, result.height,
                      IF argumets.gamma_correction
                      THEN linear_to_gamma_space(result.image_data)
                      ELSE result.image_data)

Ok(v) == [ok |-> TRUE, val |-> v]
Err(e) == [ok |-> FALSE, err |-> e]

\* The decimal digits of a number, as bytes: what `{}` formats
RECURSIVE to_decimal(_)
to_decimal(n) ==
    IF n < 10 THEN <<48 + n>> ELSE Append(to_decimal(n \div 10), 48 + (n % 10))

\* format!("P6\n{} {}\n{}\n", width, height, 255).bytes()
ppm_header(width, height) ==
    <<80, 54, 10>> \o to_decimal(width) \o <<32>> \o to_decimal(height) \o <<10>>
        \o to_decimal(255) \o <<10>>

\* `f32 as u8`: truncation toward zero, saturating, NaN to 0
as_u8(a) ==
    IF a = NaN \/ a < 0 THEN 0 ELSE IF a >= 255 * Scale THEN 255 ELSE a \div Scale

\* The three bytes pushed for one colour
color_bytes(color) ==
    LET resized_color == ColorScale(255 * Scale, clamp(color))
    IN <<as_u8(resized_color[1]), as_u8(resized_color[2]), as_u8(resized_color[3])>>

RECURSIVE ppm_body(_, _)
ppm_body(rgb_data, i) ==
    IF i = 0 THEN <<>> ELSE ppm_body(rgb_data, i - 1) \o color_bytes(rgb_data[i])

\* A u32 as its two 16-bit halves <<high, low>>, with a third component that
\* records whether the mathematical value left the 32 bits
U32_HALF == 65536
as_u32(n) == <<(n \div U32_HALF) % U32_HALF, n % U32_HALF, FALSE>>

\* u32 addition, wrapped; the flag is set on a carry out of bit 31
u32_add(a, b) ==
    LET low == a[2] + b[2]
        high == a[1] + b[1] + (low \div U32_HALF)
    IN <<high % U32_HALF, low % U32_HALF, a[3] \/ b[3] \/ high >= U32_HALF>>

\* u32 multiplication `a * n`, wrapped, by doubling
RECURSIVE u32_mul(_, _)
u32_mul(a, n) ==
    IF n = 0 THEN as_u32(0)
    ELSE LET half == u32_mul(a, n \div 2)
             twice == u32_add(half, half)
         IN IF n % 2 = 1 THEN u32_add(twice, a) ELSE twice

u32_gt(a, b) == a[1] > b[1] \/ (a[1] = b[1] /\ a[2] > b[2])

\* `width * height > rgb_data.len() as u32` in a build that wraps
size_exceeds_data(len, width, height) ==
    u32_gt(u32_mul(as_u32(width), height), as_u32(len))

\* `width * height` panics in a build with overflow checks
Panicked == [ok |-> FALSE, panic |-> TRUE]
size_overflows(width, height) == u32_mul(as_u32(width), height)[3]

rgb_to_binary_ppm(rgb_data, width, height) ==
    IF size_exceeds_data(Len(rgb_data), width, height)
    THEN Err([width |-> width, height |-> height, size |-> Len(rgb_data)])
    ELSE Ok(ppm_header(width, height) \o ppm_body(rgb_data, Len(rgb_data)))

\* What a call can do: the build decides whether an overflowing product wraps
\* or panics
rgb_to_binary_ppm_outcomes(rgb_data, width, height) ==
    { rgb_to_binary_ppm(rgb_data, width, height) }
        \cup (IF size_overflows(width, height) THEN { Panicked } ELSE {})

Postprocess ==
    /\ pc = "rendered" /\ render_result.some
    /\ postprocessing_result' = Some(postprocess(args, render_result.val))
    /\ pc' = "postprocessed"
    /\ lastEvent' = [kind |-> "postprocess"]
    /\ UNCHANGED <<args, scene, px, py, sample, pixel_color, color_data, stack, retval,
                   stats, pixlog, camVars, hitVars, scatterVars, render_result, ppm_data>>

ExportToFile ==
    /\ pc = "postprocessed" /\ postprocessing_result.some
    /\ \E result \in rgb_to_binary_ppm_outcomes(postprocessing_result.val.image_data,
                                                 postprocessing_result.val.width,
                                                 postprocessing_result.val.height) :
         /\ ppm_data' = Some(result)
         /\ pc' = IF result.ok THEN "exported"
                  ELSE IF result = Panicked THEN "panicked" ELSE "failed"
    /\ lastEvent' = [kind |-> "export"]
    /\ UNCHANGED <<args, scene, px, py, sample, pixel_color, color_data, stack, retval,
                   stats, pixlog, camVars, hitVars, scatterVars, render_result,
                   postprocessing_result>>

\* Render results handed to postprocess directly: buffers of up to MaxPixels
\* colours, among them channels outside [0, 1] and NaN
MaxPixels == 5
PostColors == { <<0, 250, Scale>>, <<4 * Scale, 500, 0>>, <<-Scale, Scale, NaN>> }
PostSizes == { 0, 1, 2, U32_HALF }
RenderResults ==
    { RenderResult(w, h, d) :
        w \in PostSizes, h \in PostSizes,
        d \in UNION { [1..n -> PostColors] : n \in 0..MaxPixels } }

(***************************************************************************)
(* Specifications                                                          *)
(***************************************************************************)
IdleHit == hq = [op |-> "none", done |-> TRUE] /\ hres = None
IdleScatter == mq = [op |-> "none", done |-> TRUE] /\ mres = None
IdleExport == render_result = None /\ postprocessing_result = None /\ ppm_data = None
IdleCam == cam = None /\ camPanic = FALSE /\ camOp = [name |-> "none", a |-> 0, b |-> 0, nt |-> 0]
IdleRender ==
    /\ scene = <<>> /\ pc = "prepare" /\ px = 0 /\ py = 0 /\ sample = 0
    /\ pixel_color = black /\ color_data = <<>> /\ stack = <<>> /\ retval = None
    /\ stats = NoStats /\ pixlog = <<>> /\ lastEvent = [kind |-> "init"]

FirstArguments == CHOOSE a \in Arguments : TRUE

\* The program
Init == IdleHit /\ IdleScatter /\ IdleCam /\ IdleRender /\ IdleExport /\ args \in Runs
Next ==
    \/ PrepareRenderData
    \/ RenderStart
    \/ ShootCenterRay
    \/ ShootRandomRay
    \/ RayColorCall
    \/ RayColorReturn
    \/ SampleDone
    \/ PixelDone
    \/ Postprocess
    \/ ExportToFile
Spec == Init /\ [][Next]_vars

\* Postprocessing and export of a given render result
InitPost ==
    /\ IdleHit /\ IdleScatter /\ IdleCam
    /\ scene = <<>> /\ pc = "rendered" /\ px = 0 /\ py = 0 /\ sample = 0
    /\ pixel_color = black /\ color_data = <<>> /\ stack = <<>> /\ retval = None
    /\ stats = NoStats /\ pixlog = <<>> /\ lastEvent = [kind |-> "init"]
    /\ args \in { [FirstArguments EXCEPT !.gamma_correction = g] : g \in BOOLEAN }
    /\ render_result \in { Some(r) : r \in RenderResults }
    /\ postprocessing_result = None /\ ppm_data = None
NextPost == Postprocess \/ ExportToFile
SpecPost == InitPost /\ [][NextPost]_vars

\* Intersection queries
InitHit ==
    /\ hq \in HitQueries /\ hres = None
    /\ IdleScatter /\ IdleCam /\ IdleRender /\ IdleExport /\ args = FirstArguments
NextHit == QuerySphere \/ QueryParalellogram \/ QueryScene
SpecHit == InitHit /\ [][NextHit]_vars

\* Scatter queries
InitScatter ==
    /\ mq \in ScatterQueries /\ mres = None
    /\ IdleHit /\ IdleCam /\ IdleRender /\ IdleExport /\ args = FirstArguments
NextScatter == ScatterLambertarian \/ ScatterMetal \/ ScatterDielectric
SpecScatter == InitScatter /\ [][NextScatter]_vars

\* Calls of the unit-sphere sampler
InitSampler ==
    /\ mq \in SamplerQueries /\ mres = None
    /\ IdleHit /\ IdleCam /\ IdleRender /\ IdleExport /\ args = FirstArguments
NextSampler == SampleUnitSphere
SpecSampler == InitSampler /\ [][NextSampler]_vars

\* Matrix products
InitMatrix ==
    /\ mq \in MatrixQueries /\ mres = None
    /\ IdleHit /\ IdleCam /\ IdleRender /\ IdleExport /\ args = FirstArguments
NextMatrix ==
    \/ MulMatrix3x3
    \/ MulMatrix4x4
SpecMatrix == InitMatrix /\ [][NextMatrix]_vars

\* Camera operations
InitCamera ==
    IdleHit /\ IdleScatter /\ IdleCam /\ IdleRender /\ IdleExport /\ args = FirstArguments
NextCamera ==
    \/ CameraDefault
    \/ CameraNew
    \/ SetUpDirection
    \/ SetWidth
    \/ SetHeight
    \/ SetVerticalFov
    \/ SetPosition
    \/ SetDefocus
    \/ LookAt
    \/ Transform
    \/ GetRay
SpecCamera == InitCamera /\ [][NextCamera]_vars

(***************************************************************************)
(* Properties of the intersection subsystem (under SpecHit)                *)
(***************************************************************************)
\* What each primitive of the queried scene reports for the original interval
PrimReport(i) == AnyHittable_hit(hq.prims[i], hq.ray, hq.interval)
Reporting == { i \in DOMAIN hq.prims : PrimReport(i).some }
Reorder(f) == [i \in DOMAIN hq.prims |-> hq.prims[f[i]]]

\* C5: Renderables::hit returns None exactly when no primitive reports a hit
\* in the given interval; otherwise its t is the minimum of the t values the
\* primitives report for the original interval, the record is that of the
\* primitive attaining it when only one does, and every insertion order of
\* the same primitives gives the same t.
C5_SceneHitIsClosest ==
    (hq.op = "scene" /\ hq.done) =>
        /\ hres.some <=> Reporting # {}
        /\ hres.some =>
             /\ \E i \in Reporting : PrimReport(i).val.t = hres.val.t
             /\ \A i \in Reporting : hres.val.t <= PrimReport(i).val.t
             /\ \A i \in Reporting :
                  (\A j \in Reporting : j # i => PrimReport(j).val.t # PrimReport(i).val.t)
                  /\ PrimReport(i).val.t = hres.val.t
                  => hres = PrimReport(i)
        /\ \A f \in Permutations(DOMAIN hq.prims) :
             LET other == Renderables_hit(Reorder(f), hq.ray, hq.interval)
             IN /\ other.some = hres.some
                /\ hres.some => other.val.t = hres.val.t

\* C5 witness: a scene of three primitives, two of which report a hit, where
\* the closest one was not inserted first
C5_Witness ==
    /\ hq.op = "scene" /\ hq.done /\ hres.some
    /\ Len(hq.prims) = 3
    /\ Cardinality(Reporting) >= 2
    /\ PrimReport(1).some /\ PrimReport(1).val.t > hres.val.t

\* C6: Sphere::hit reports a hit only for a parameter strictly inside the
\* interval; a root on either bound is not reported.
C6_SphereHitStrictlyInside ==
    (hq.op = "sphere" /\ hq.done /\ hres.some) =>
        /\ hq.interval.min < hres.val.t
        /\ hres.val.t < hq.interval.max

\* C6 witness: the smaller root 1.0 lies on the lower bound of the interval,
\* and the larger root 3.0 is reported instead
C6_Witness ==
    /\ hq.op = "sphere" /\ hq.done
    /\ hq.ray = Ray_new(Vec(0, 0, 0), Vec(0, 0, -1000))
    /\ hq.prims[1].center = Vec(0, 0, -2000)
    /\ hq.interval = Interval_new(1000, Infinity)
    /\ hres.some /\ hres.val.t = 3000

\* C7: Parallelogram::hit reports a hit only for a parameter strictly inside
\* the interval, never one equal to its min or max.
C7_ParalellogramHitStrictlyInside ==
    (hq.op = "parallelogram" /\ hq.done /\ hres.some) =>
        /\ hq.interval.min < hres.val.t
        /\ hres.val.t < hq.interval.max

(***************************************************************************)
(* Properties of the camera (under SpecCamera)                             *)
(***************************************************************************)
\* C8: after every constructing or mutating operation of the camera, in any
\* order, the derived state equals what update_transforms computes from the
\* current configuration, and a ray query returns the ray that the freshly
\* recomputed derived state gives.
C8_RecomputeOnWrite ==
    cam.some =>
        /\ cam.val = update_transforms(cam.val)
        /\ camOp.name = "get_ray_through_pixel_center" =>
             camOp.b = get_ray_through_pixel_center(update_transforms(cam.val),
                                                    camOp.a[1], camOp.a[2])

\* C8 witness: a ray query on a camera whose position, width and target were
\* changed by setters, so that the derived state is no longer the default one
C8_Witness ==
    /\ cam.some
    /\ camOp.name = "get_ray_through_pixel_center"
    /\ cam.val.origin = Vec(-3000, 3000, 1000)
    /\ cam.val.width = AsF32(1)
    /\ cam.val.look_at # Vec(0, 0, -Scale)
    /\ cam.val.upper_left # Camera_default.upper_left
    /\ cam.val.horizontal_shift # Camera_default.horizontal_shift

\* C9: Camera::new aborts, leaving no camera behind, whenever width or height
\* is 0, and otherwise returns a configured camera of that width and height.
C9_NewPanicsOnZeroSize ==
    [][camOp'.name = "new" =>
         IF camOp'.a = 0 \/ camOp'.b = 0
         THEN camPanic' /\ cam' = cam
         ELSE /\ ~camPanic'
              /\ cam'.some
              /\ cam'.val.width = AsF32(camOp'.a)
              /\ cam'.val.height = AsF32(camOp'.b)
              /\ cam'.val = update_transforms(cam'.val)]_vars

\* C9 witness: Camera::new(0, 1, ..) as the first operation has aborted and
\* no camera exists
C9_Witness ==
    /\ camPanic
    /\ camOp.name = "new" /\ camOp.a = 0 /\ camOp.b = 1
    /\ cam = None

(***************************************************************************)
(* Properties of the integrator and the pixel loop (under Spec)            *)
(***************************************************************************)
IntegratorInterval == Interval_new(1, Infinity)

\* The scene query and the scatter of the invocation lastEvent records
EventHit == Renderables_hit(scene, lastEvent.ray, IntegratorInterval)
EventScatter ==
    AnyMaterial_scatter(EventHit.val.material, lastEvent.ray, EventHit.val, lastEvent.rnd)

\* C1: a ray_color call of depth d makes at most d scene queries and at most
\* d scatter calls in at most d + 1 invocations; each recursive invocation has
\* a depth exactly one smaller than its caller's, no depth is below 0, and an
\* invocation returns without recursing only on depth 0, miss or absorption.
C1_BoundedRecursion ==
    /\ \A i \in DOMAIN stack :
         stack[i].depth = args.steps - (i - 1) /\ stack[i].depth >= 0
    /\ stats.hit_queries <= args.steps
    /\ stats.scatter_calls <= args.steps
    /\ stats.calls <= args.steps + 1
    /\ lastEvent.kind = "call" =>
         /\ lastEvent.depth >= 0
         /\ lastEvent.out.kind = "recurse" =>
              /\ lastEvent.out.depth = lastEvent.depth - 1
              /\ lastEvent.depth >= 1
         /\ lastEvent.out.kind = "return" =>
              \/ lastEvent.depth = 0
              \/ ~EventHit.some
              \/ ~EventScatter.some

\* C1 witness: a call of depth 2 has bounced twice and its innermost
\* invocation, of depth 0, has just run
C1_Witness ==
    /\ args.steps = 2
    /\ lastEvent.kind = "call" /\ lastEvent.depth = 0 /\ lastEvent.level = 3
    /\ stats.hit_queries = 2 /\ stats.scatter_calls = 2 /\ stats.calls = 3

\* C2: an invocation of ray_color with depth 0 returns black and consults
\* neither the scene nor a material nor the background.
C2_DepthZeroIsBlack ==
    /\ (lastEvent.kind = "call" /\ lastEvent.depth = 0) =>
         /\ lastEvent.out.kind = "return"
         /\ lastEvent.out.color = <<0, 0, 0>>
         /\ retval = Some(<<0, 0, 0>>)
         /\ ~lastEvent.out.hit_queried
         /\ ~lastEvent.out.scatter_called
         /\ ~lastEvent.out.background_called
    /\ (lastEvent.kind = "sample" /\ args.steps = 0) =>
         /\ lastEvent.result = <<0, 0, 0>>
         /\ stats = [hit_queries |-> 0, scatter_calls |-> 0, background_calls |-> 0,
                     calls |-> 1]

\* C2 witness: the pixel loop called ray_color with depth 0 on a ray that
\* would have hit the scene
C2_Witness ==
    /\ lastEvent.kind = "call" /\ lastEvent.depth = 0 /\ lastEvent.level = 1
    /\ EventHit.some

\* C3: with depth >= 1 and a hit, the background is not evaluated; if the
\* material absorbs, the invocation returns black; otherwise it recurses on
\* the scattered ray with depth - 1 and returns the channel-wise product of
\* the attenuation and the result of that recursive call.
C3_HitScattersOrAbsorbs ==
    /\ (lastEvent.kind = "call" /\ lastEvent.depth >= 1 /\ EventHit.some) =>
         /\ ~lastEvent.out.background_called
         /\ IF ~EventScatter.some
            THEN /\ lastEvent.out.kind = "return"
                 /\ retval = Some(<<0, 0, 0>>)
            ELSE /\ lastEvent.out.kind = "recurse"
                 /\ ~retval.some
                 /\ Len(stack) = lastEvent.level + 1
                 /\ stack[lastEvent.level + 1].ray = EventScatter.val.scattered_ray
                 /\ stack[lastEvent.level + 1].depth = lastEvent.depth - 1
                 /\ stack[lastEvent.level].attenuation = EventScatter.val.attenuation
    /\ lastEvent.kind = "return" =>
         /\ retval = Some(lastEvent.result)
         /\ \A k \in 1..3 :
              lastEvent.result[k] = FMul(lastEvent.attenuation[k], lastEvent.deeper_result[k])

\* C3 witness: an invocation whose hit scattered has received a colour from
\* its recursive call and returned a product that differs from it
C3_Witness ==
    /\ lastEvent.kind = "return"
    /\ lastEvent.deeper_result # <<0, 0, 0>>
    /\ lastEvent.result # lastEvent.deeper_result
    /\ lastEvent.result # <<0, 0, 0>>
    /\ \A k \in 1..3 : lastEvent.result[k] # NaN

\* C4: with depth >= 1 and no hit in (0.001, +inf), the invocation returns the
\* background of its own ray and consults no material.
C4_MissIsBackground ==
    (lastEvent.kind = "call" /\ lastEvent.depth >= 1 /\ ~EventHit.some) =>
        /\ lastEvent.out.kind = "return"
        /\ retval = Some(sky_background(lastEvent.ray))
        /\ ~lastEvent.out.scatter_called
        /\ lastEvent.level = 1 => lastEvent.ray = pixlog[Len(pixlog)].ray

\* C4 witness: a scattered ray (second level) missed the scene, and its
\* background differs from the background of the primary ray
C4_Witness ==
    /\ lastEvent.kind = "call" /\ lastEvent.level = 2 /\ lastEvent.depth >= 1
    /\ ~EventHit.some
    /\ retval.some
    /\ retval.val # sky_background(pixlog[Len(pixlog)].ray)
    /\ \A k \in 1..3 : retval.val[k] # NaN

RECURSIVE SumResults(_, _, _)
SumResults(log, i, k) == IF i = 0 THEN 0 ELSE FAdd(SumResults(log, i - 1, k), log[i].result[k])

\* C10: a pixel of a 1-sample render is the result of exactly one ray_color
\* call, on the ray through the pixel centre; a pixel of an N-sample render,
\* N > 1, is the sum of the results of exactly N calls on random rays through
\* the pixel, divided by N.
C10_PixelSampling ==
    lastEvent.kind = "pixel" =>
        LET log == lastEvent.log
            n == args.samples_per_pixel
        IN /\ color_data[Len(color_data)] = lastEvent.color
           /\ Len(log) = n
           /\ n = 1 =>
                /\ log[1].center
                /\ log[1].ray = get_ray_through_pixel_center(cam.val, lastEvent.x, lastEvent.y)
                /\ lastEvent.color = log[1].result
           /\ n > 1 =>
                /\ \A i \in 1..n :
                     /\ ~log[i].center
                     /\ \E disk \in DiskDraws, jit \in JitterDraws :
                          log[i].ray = get_random_ray_through_pixel(
                                           cam.val, lastEvent.x, lastEvent.y, disk, jit)
                /\ \A k \in 1..3 :
                     lastEvent.color[k] = FDiv(SumResults(log, n, k), n * Scale)

\* C10 witness: a 2-sample pixel whose two rays differ and whose two results
\* differ, so that the average is neither of them
C10_Witness ==
    /\ lastEvent.kind = "pixel" /\ args.samples_per_pixel = 2
    /\ lastEvent.log[1].ray # lastEvent.log[2].ray
    /\ lastEvent.log[1].result # lastEvent.log[2].result
    /\ lastEvent.color # lastEvent.log[1].result
    /\ lastEvent.color # lastEvent.log[2].result
    /\ \A k \in 1..3 : lastEvent.color[k] # NaN

\* C11: render fills its buffer in row-major order: the buffer changes only by
\* appending the colour of the current pixel (x, y) at index y * width + x
\* (counted from 0), every pixel of the image once, and the RenderResult it
\* returns holds width * height colours, the buffer as filled, and the
\* configured width and height.
C11_RowMajorBuffer ==
    [][/\ (color_data' # color_data /\ color_data' # <<>>) =>
            /\ lastEvent'.kind = "pixel"
            /\ lastEvent'.x = px /\ lastEvent'.y = py
            /\ px < args.output_width /\ py < args.output_height
            /\ Len(color_data) = py * args.output_width + px
            /\ Len(color_data') = Len(color_data) + 1
            /\ SubSeq(color_data', 1, Len(color_data)) = color_data
            /\ color_data'[py * args.output_width + px + 1] = lastEvent'.color
       /\ (pc' = "rendered" /\ pc # "rendered") =>
            /\ render_result'.some
            /\ render_result'.val.width = args.output_width
            /\ render_result'.val.height = args.output_height
            /\ render_result'.val.image_data = color_data'
            /\ Len(color_data') = args.output_width * args.output_height]_vars

\* C11 witness: a 2 x 2 image has been rendered whose pixels (1, 0) and (0, 1)
\* differ, so that a column-major buffer would be a different one
C11_Witness ==
    /\ pc = "rendered" /\ render_result.some
    /\ render_result.val.width = 2 /\ render_result.val.height = 2
    /\ Len(render_result.val.image_data) = 4
    /\ render_result.val.image_data[2] # render_result.val.image_data[3]
    /\ render_result.val.image_data[1] # render_result.val.image_data[2]


\* C12: the buffer that postprocess returns holds, for every pixel of the render
\* result, the colour with gamma applied once when enabled and not at all when
\* disabled, and then clamped; every channel of it is within [0, 1].
C12_GammaThenClamped ==
    postprocessing_result.some =>
        /\ Len(postprocessing_result.val.image_data) = Len(render_result.val.image_data)
        /\ \A i \in DOMAIN render_result.val.image_data :
             /\ postprocessing_result.val.image_data[i] =
                    clamp(IF args.gamma_correction
                          THEN linear_to_gamma(render_result.val.image_data[i])
                          ELSE render_result.val.image_data[i])
             /\ \A k \in 1..3 :
                    postprocessing_result.val.image_data[i][k] \in 0..Scale

\* C13: an accepted call of rgb_to_binary_ppm gives the header
\* "P6\n{width} {height}\n255\n" followed by exactly 3 * width * height bytes,
\* three per pixel in row-major order, every byte within 0..255.
C13_PpmLayout ==
    (ppm_data.some /\ ppm_data.val.ok) =>
        /\ Len(ppm_data.val.val) = 11 + 3 * postprocessing_result.val.width
                                          * postprocessing_result.val.height
        /\ SubSeq(ppm_data.val.val, 1, 11) =
              <<80, 54, 10, 48 + postprocessing_result.val.width, 32,
                48 + postprocessing_result.val.height, 10, 50, 53, 53, 10>>
        /\ \A i \in DOMAIN ppm_data.val.val : ppm_data.val.val[i] \in 0..255
        /\ \A x \in 0..(postprocessing_result.val.width - 1),
              y \in 0..(postprocessing_result.val.height - 1), k \in 1..3 :
              ppm_data.val.val[11 + 3 * (y * postprocessing_result.val.width + x) + k] =
                as_u8(FMul(255 * Scale,
                      clamp_f32(postprocessing_result.val.image_data
                                    [y * postprocessing_result.val.width + x + 1][k])))

\* The outward normal the primitive computes for a hit at `point`
outward_normal_of(prim, point) ==
    IF prim.kind = "Sphere" THEN get_outward_normal(prim, point) ELSE prim.normal

\* C14: every hit record returned by Sphere::hit or Paralellogram::hit has a
\* stored normal that does not point along the ray (dot(direction, normal) <= 0),
\* front_face is true exactly when dot(direction, outward normal) < 0, and the
\* stored normal is the outward normal when front_face and its negation otherwise.
C14_NormalOpposesRay ==
    (hq.op \in {"sphere", "parallelogram"} /\ hq.done /\ hres.some) =>
        /\ FLe(dot(hq.ray.direction, hres.val.normal), 0)
        /\ hres.val.front_face <=>
              FLt(dot(hq.ray.direction, outward_normal_of(hq.prims[1], hres.val.point)), 0)
        /\ hres.val.normal =
              IF hres.val.front_face
              THEN outward_normal_of(hq.prims[1], hres.val.point)
              ELSE VNeg(outward_normal_of(hq.prims[1], hres.val.point))
C14_Witness ==
    /\ hq.op = "sphere" /\ hq.done /\ hres.some /\ ~hres.val.front_face
    /\ FLt(dot(hq.ray.direction, hres.val.normal), 0)

\* C15: the result of a ray_color invocation is determined by the ray, the scene,
\* the depth and the draws taken from the rng that was passed in: no scatter
\* decision depends on a draw from another source (rnd.u, the value of
\* rand::random(), changes nothing).
C15_DeterminedByPassedRng ==
    lastEvent.kind = "call" =>
        \A u \in UniformDraws :
            ray_color(lastEvent.ray, scene, lastEvent.depth,
                      [lastEvent.rnd EXCEPT !.u = u]) = lastEvent.out

\* C16: LambertarianDiffuse::scatter never absorbs: it always returns Some, with
\* the albedo as attenuation and a scattered ray that starts at the hit point.
C16_LambertarianNeverAbsorbs ==
    (mq.done /\ mq.hit_record.material.kind = "Lambertarian") =>
        /\ mres.val.some
        /\ mres.val.val.attenuation = mq.hit_record.material.albedo
        /\ mres.val.val.scattered_ray.origin = mq.hit_record.point
C16_Witness ==
    /\ mq.done /\ mq.hit_record.material.kind = "Lambertarian" /\ mres.val.some
    /\ mres.val.val.attenuation = RGBColor_new(800, 500, 200)
    /\ mres.val.val.scattered_ray.direction = Vec(0, 0, 0)

\* Near zero: every component within 1e-8 of zero, which at the model's
\* resolution is the zero vector
NearZero(v) == v = Vec(0, 0, 0)

IsNaNVec(v) == v[1] = NaN \/ v[2] = NaN \/ v[3] = NaN

\* C17: the direction of the ray LambertarianDiffuse::scatter returns is never
\* zero-length or NaN: when normal + random unit vector is near zero, the bare
\* normal is the direction.
C17_LambertarianDirectionNonZero ==
    (mq.done /\ mq.hit_record.material.kind = "Lambertarian" /\ mres.val.some) =>
        /\ ~NearZero(mres.val.val.scattered_ray.direction)
        /\ ~IsNaNVec(mres.val.val.scattered_ray.direction)
        /\ NearZero(VAdd(mq.hit_record.normal, random_vec3_on_unit_sphere(mq.rnd.n4))) =>
               mres.val.val.scattered_ray.direction = mq.hit_record.normal

refracted_perpendicular_of(m, incoming_ray, hit_record) ==
    VScale(Dielectric_refraction_ratio(m, hit_record),
           VAdd(normalize(incoming_ray.direction),
                VScale(FMin(dot(VNeg(normalize(incoming_ray.direction)), hit_record.normal),
                            Scale),
                       hit_record.normal)))

\* refract_vec3 is invoked: neither branch condition of the reflection holds
RefractInvoked ==
    /\ mq.done /\ mq.hit_record.material.kind = "Dielectric"
    /\ ~Dielectric_cannot_refract(mq.hit_record.material, mq.ray, mq.hit_record)
    /\ ~Dielectric_randomly_reflects(mq.hit_record.material, mq.ray, mq.hit_record, mq.rnd)

RECURSIVE AttenuationProduct(_, _)
AttenuationProduct(frames, n) ==
    IF n = 0 THEN white
    ELSE ColorMul(AttenuationProduct(frames, n - 1), frames[n].attenuation)

ColorLe(c, d) == \A k \in 1..3 : FLe(c[k], d[k])
UnitColor(c) == \A k \in 1..3 : FLe(0, c[k]) /\ FLe(c[k], Scale)

\* C20: when every attenuation has its channels in [0, 1], the accumulated
\* attenuation product after n bounces is channel-wise at most the product after
\* n - 1 bounces. (The last frame of the stack has not scattered yet.)
C20_AttenuationNonIncreasing ==
    \A n \in 1..(Len(stack) - 1) :
        (\A i \in 1..n : UnitColor(stack[i].attenuation)) =>
            ColorLe(AttenuationProduct(stack, n), AttenuationProduct(stack, n - 1))
C20_Witness ==
    /\ Len(stack) = 3
    /\ UnitColor(stack[1].attenuation) /\ UnitColor(stack[2].attenuation)
    /\ \A k \in 1..3 :
          /\ AttenuationProduct(stack, 2)[k] < AttenuationProduct(stack, 1)[k]
          /\ AttenuationProduct(stack, 1)[k] < Scale
          /\ AttenuationProduct(stack, 2)[k] > 0

\* C21: with 1 sample per pixel and depth 1 the colour of a pixel does not depend
\* on the draws: it is the background colour of the centre ray when that ray
\* misses every primitive, and one fixed colour (black) when it hits one.
C21_DepthOnePixel ==
    (lastEvent.kind = "pixel" /\ args.samples_per_pixel = 1 /\ args.steps = 1) =>
        lastEvent.color =
            IF Renderables_hit(scene,
                               get_ray_through_pixel_center(cam.val, lastEvent.x,
                                                            lastEvent.y),
                               Interval_new(RayMin, Infinity)).some
            THEN black
            ELSE sky_background(get_ray_through_pixel_center(cam.val, lastEvent.x,
                                                             lastEvent.y))
C21_Witness ==
    /\ lastEvent.kind = "pixel" /\ args.samples_per_pixel = 1 /\ args.steps = 1
    /\ lastEvent.color = black
    /\ Len(color_data) = 2 /\ color_data[1] # black
    /\ Renderables_hit(scene,
                       get_ray_through_pixel_center(cam.val, lastEvent.x, lastEvent.y),
                       Interval_new(RayMin, Infinity)).some

\* C22: Paralellogram::hit returns None, without dividing, for every ray whose
\* direction is (near-)parallel to the plane (|normal . direction| < epsilon),
\* whatever the origin (in the plane or not) and the interval: no t, NaN or
\* infinite, is produced for such a ray.
C22_ParallelRayMisses ==
    (/\ hq.op = "parallelogram" /\ hq.done
     /\ FLt(Abs(dot(hq.prims[1].normal, hq.ray.direction)), F32_EPSILON)) =>
        /\ hres = None
        /\ Paralellogram_t(hq.prims[1], hq.ray) = None
C22_Witness ==
    /\ hq.op = "parallelogram" /\ hq.done /\ hres = None
    /\ dot(hq.prims[1].normal, hq.ray.direction) = 0
    /\ dot(hq.prims[1].normal, hq.ray.origin) = hq.prims[1].plane_parameter
    /\ hq.interval.max = Infinity

\* The norm of the 4D normal sample
sample_norm(n4) ==
    FSqrt(FAdd(FAdd(FAdd(FMul(n4[1], n4[1]), FMul(n4[2], n4[2])), FMul(n4[3], n4[3])),
               FMul(n4[4], n4[4])))

\* C23: random_vec3_on_unit_sphere never returns a NaN component: it returns the
\* zero vector when the norm of the 4D normal sample is zero or infinite, and
\* the first three coordinates divided by the norm otherwise.
C23_SamplerNeverNaN ==
    (mq.op = "sampler" /\ mq.done) =>
        /\ ~IsNaNVec(mres.val)
        /\ mres.val =
              IF sample_norm(normal_samples(mq.draws)) \in {0, Infinity}
              THEN Vec(0, 0, 0)
              ELSE Vec(FDiv(normal_samples(mq.draws)[1],
                            sample_norm(normal_samples(mq.draws))),
                       FDiv(normal_samples(mq.draws)[2],
                            sample_norm(normal_samples(mq.draws))),
                       FDiv(normal_samples(mq.draws)[3],
                            sample_norm(normal_samples(mq.draws))))

\* The iterations before step i that replaced the record
AcceptedBefore(steps, i) == { j \in 1..(i - 1) : steps[j].accepted }

\* C24: during one pass of Renderables::hit every primitive is queried with the
\* interval (original min, closest_so_far); closest_so_far is the original max
\* while no hit has been accepted and otherwise the t of the closest hit accepted
\* so far; it never increases; an accepted hit has a t not above the previous
\* closest_so_far; and the pass returns the last accepted hit.
C24_ShrinkingInterval ==
    (hq.op = "scene" /\ hq.done) =>
        \A steps \in { Renderables_steps(hq.prims, 1, hq.ray, hq.interval, None,
                                         hq.interval.max) } :
            /\ Len(steps) = Len(hq.prims)
            /\ \A i \in DOMAIN steps :
                  /\ steps[i].interval = Interval_new(hq.interval.min, steps[i].closest_so_far)
                  /\ AcceptedBefore(steps, i) = {} => steps[i].closest_so_far = hq.interval.max
                  /\ AcceptedBefore(steps, i) # {} =>
                        /\ \E j \in AcceptedBefore(steps, i) :
                              steps[i].closest_so_far = steps[j].reported.val.t
                        /\ \A j \in AcceptedBefore(steps, i) :
                              steps[i].closest_so_far <= steps[j].reported.val.t
                  /\ i > 1 => steps[i].closest_so_far <= steps[i - 1].closest_so_far
                  /\ steps[i].accepted =>
                        FLe(steps[i].reported.val.t, steps[i].closest_so_far)
            /\ hres = IF AcceptedBefore(steps, Len(steps) + 1) = {} THEN None
                      ELSE steps[CHOOSE j \in AcceptedBefore(steps, Len(steps) + 1) :
                                   \A k \in AcceptedBefore(steps, Len(steps) + 1) : k <= j]
                               .reported
C24_Witness ==
    /\ hq.op = "scene" /\ hq.done /\ Len(hq.prims) = 3 /\ hq.interval.max = Infinity
    /\ \E steps \in { Renderables_steps(hq.prims, 1, hq.ray, hq.interval, None,
                                         hq.interval.max) } :
          /\ steps[1].accepted /\ steps[2].accepted /\ ~steps[3].accepted
          /\ steps[2].closest_so_far > steps[3].closest_so_far
          /\ hres = steps[2].reported

\* The discriminant and the two roots of the sphere query: sign = -1 for
\* (-half_b - sqrt(disc)) / a, sign = 1 for (-half_b + sqrt(disc)) / a
QueryDiscriminant ==
    FSub(FMul(dot(VSub(hq.ray.origin, hq.prims[1].center), hq.ray.direction),
              dot(VSub(hq.ray.origin, hq.prims[1].center), hq.ray.direction)),
         FMul(dot(hq.ray.direction, hq.ray.direction),
              FSub(dot(VSub(hq.ray.origin, hq.prims[1].center),
                       VSub(hq.ray.origin, hq.prims[1].center)),
                   FMul(hq.prims[1].radius, hq.prims[1].radius))))
QueryRoot(sign) ==
    FDiv(FAdd(FNeg(dot(VSub(hq.ray.origin, hq.prims[1].center), hq.ray.direction)),
              sign * FSqrt(QueryDiscriminant)),
         dot(hq.ray.direction, hq.ray.direction))
InOpen(iv, x) == FLt(iv.min, x) /\ FLt(x, iv.max)

\* C25: with a non-negative discriminant Sphere::hit reports the smaller root
\* whenever it lies in the open interval, the larger root only when the smaller
\* one is outside and the larger one inside, and a miss when both are outside;
\* the reported point is ray.at(t).
C25_NearestRootFirst ==
    (hq.op = "sphere" /\ hq.done /\ FLe(0, QueryDiscriminant)) =>
        /\ InOpen(hq.interval, QueryRoot(-1)) => hres.some /\ hres.val.t = QueryRoot(-1)
        /\ (~InOpen(hq.interval, QueryRoot(-1)) /\ InOpen(hq.interval, QueryRoot(1))) =>
              hres.some /\ hres.val.t = QueryRoot(1)
        /\ (~InOpen(hq.interval, QueryRoot(-1)) /\ ~InOpen(hq.interval, QueryRoot(1))) =>
              hres = None
        /\ hres.some => hres.val.point = Ray_at(hq.ray, hres.val.t)
C25_Witness ==
    /\ hq.op = "sphere" /\ hq.done /\ hres.some
    /\ QueryRoot(-1) < QueryRoot(1)
    /\ InOpen(hq.interval, QueryRoot(-1)) /\ InOpen(hq.interval, QueryRoot(1))
    /\ hres.val.t = QueryRoot(-1)
    /\ hres.val.point = Ray_at(hq.ray, QueryRoot(-1))
    /\ hres.val.point # Ray_at(hq.ray, QueryRoot(1))

\* C26: after any sequence of Camera::default / Camera::new and setter calls the
\* width and the height of the camera are both non-zero (a zero passed to
\* set_width or set_height is rejected), so update_transforms never divides by a
\* zero width or height.
C26_CameraSizeNonZero ==
    cam.some => cam.val.width # 0 /\ cam.val.height # 0

\* The forward basis vector update_transforms uses: look_difference
forward_of(c) == normalize(VSub(c.origin, c.look_at))

\* C28: after Camera::look_at(p) the stored look-at target is p itself and the
\* forward basis vector used by update_transforms is normalize(origin - p), for
\* every point p, of unit length or not.
C28_LookAtStoresTarget ==
    (cam.some /\ camOp.name = "look_at") =>
        /\ cam.val.look_at = camOp.a
        /\ forward_of(cam.val) = normalize(VSub(cam.val.origin, camOp.a))

\* C27: in Dielectric::scatter cos_theta equals min(1, (-unit_direction) . normal),
\* which is also the cos_theta of refract for that direction and normal; it never
\* exceeds 1, and 1 - cos_theta^2 is not negative under the square root when the
\* normal opposes the ray.
C27_CosThetaClamped ==
    (mq.done /\ mq.hit_record.material.kind = "Dielectric") =>
        /\ Dielectric_cos_theta(mq.ray, mq.hit_record) =
              FMin(Scale, dot(VNeg(normalize(mq.ray.direction)), mq.hit_record.normal))
        /\ FLe(Dielectric_cos_theta(mq.ray, mq.hit_record), Scale)
        /\ FLe(dot(mq.ray.direction, mq.hit_record.normal), 0) =>
              FLe(0, FSub(Scale, FMul(Dielectric_cos_theta(mq.ray, mq.hit_record),
                                      Dielectric_cos_theta(mq.ray, mq.hit_record))))

\* C29: rgb_to_binary_ppm returns Err(SizeExceedsData) exactly when the
\* mathematical product width * height exceeds the number of pixels passed, and
\* Ok otherwise, for every u32 width and height.
C29_SizeCheckExact ==
    (pc \in {"exported", "failed", "panicked"} /\ ppm_data.some) =>
        LET size == Len(postprocessing_result.val.image_data)
            width == postprocessing_result.val.width
            height == postprocessing_result.val.height
            exceeds == width > 0 /\ height > size \div width
        IN IF exceeds
           THEN ppm_data.val = Err([width |-> width, height |-> height, size |-> size])
           ELSE ppm_data.val.ok

\* The entry (i, j) of the standard matrix product: sum over k of a[i][k] * b[k][j]
StandardProduct3(a, b) ==
    [idx \in 1..9 |->
        LET i == (idx - 1) \div 3
            j == (idx - 1) % 3
        IN FAdd(FAdd(FAdd(0, FMul(a[i * 3 + 1], b[j + 1])), FMul(a[i * 3 + 2], b[3 + j + 1])),
                FMul(a[i * 3 + 3], b[6 + j + 1]))]

\* C30: the product of two Matrix3x3 is the standard matrix product (entry (i, j)
\* is the sum over k of self[i][k] * rhs[k][j]); identity * M and M * identity
\* are M; and it agrees with the Matrix4x4 product on the upper-left 3x3 block.
C30_Matrix3x3Product ==
    (mq.op = "mul3" /\ mq.done) =>
        /\ mres.val = StandardProduct3(mq.lhs, mq.rhs)
        /\ mq.lhs = Matrix3x3_identity => mres.val = mq.rhs
        /\ mq.rhs = Matrix3x3_identity => mres.val = mq.lhs
        /\ mres.val = UpperLeft3(Matrix4x4_mul(Embed4(mq.lhs), Embed4(mq.rhs)))
====
